---- MODULE Spec2Model ----
(***************************************************************************)
(* A model of vtkDICOMDirectory (Source/vtkDICOMDirectory.cxx): the        *)
(* hierarchical index store (AddSeriesFileNames), the grouping and sorting *)
(* pass (SortFiles), the DICOMDIR decoder (ProcessDirectoryFile) and the   *)
(* driver (Execute, ProcessDirectory).                                     *)
(*                                                                         *)
(* C++ vectors are 0-based; a vector is modelled as a sequence whose       *)
(* element i is at position i+1.  Indices stored in the tables             *)
(* (FirstSeries, LastSeries, the study lists) keep their 0-based values.   *)
(***************************************************************************)
EXTENDS Integers, Sequences, FiniteSets, TLC

VARIABLES
  Patients,    \* PatientVector: sequence of [Record, Studies]
  Studies,     \* StudyVector: sequence of [Record, PatientRecord, FirstSeries, LastSeries]
  Series,      \* SeriesVector: sequence of [Record, Files]
  lastAdd,     \* the most recent AddSeriesFileNames call and its outcome
  calls,       \* number of AddSeriesFileNames calls made so far
  anyRejected, \* some AddSeriesFileNames call of this run returned at an error
  pc,          \* where the run is: "store", "idle", "run", "decode", "sort", "check", "done", "crashed"
  Query,       \* this->Query != 0: a find query is set
  FindLevel,   \* "SERIES" or "IMAGE"
  RequirePixelData,
  profile,     \* the class of input files of this run
  ErrorCode,   \* this->ErrorCode, 0 when there is no error
  Progress,    \* this->Progress in whole percent
  AbortExecute,
  abortSeen,   \* a checkpoint found AbortExecute set and returned
  numberOfStrings, \* length of the list SortFiles is given
  input,       \* the files of that list read so far, in order
  sortedFiles, \* SeriesInfoList: the open series groups
  dicomdir,    \* the DICOMDIR being decoded: [items, root]
  dec,         \* the locals of ProcessDirectoryFile
  candidates,  \* ProcessDirectory's files: the list of candidate file names
  DirectoryName,
  InputFileNames, \* [null, values]
  ScanDepth,
  FollowSymlinks,
  Visited,     \* the real paths of the directories entered in this run, sorted
  walk,        \* the call stack of Execute and ProcessDirectory
  reports,     \* the progress values sent with the progress event in this run
  earlier      \* what the run before this one listed, read and left in the tables

storeVars == <<Patients, Studies, Series>>
cfgVars == <<Query, FindLevel, RequirePixelData, profile>>
runVars == <<ErrorCode, Progress, AbortExecute, abortSeen, reports>>
sortVars == <<numberOfStrings, input, sortedFiles>>
decVars == <<dicomdir, dec, candidates>>
inVars == <<DirectoryName, InputFileNames, ScanDepth, FollowSymlinks>>
walkVars == <<Visited, walk>>
vars == <<Patients, Studies, Series, lastAdd, calls, anyRejected, pc,
          Query, FindLevel, RequirePixelData, profile,
          ErrorCode, Progress, AbortExecute, abortSeen,
          numberOfStrings, input, sortedFiles, dicomdir, dec, candidates,
          DirectoryName, InputFileNames, ScanDepth, FollowSymlinks, Visited, walk,
          reports, earlier>>

(***************************************************************************)
(* Bounds of the model.                                                    *)
(***************************************************************************)
MaxCalls == 4

\* Offsets, relative to the current table sizes, of the indices a caller passes.
IndexOffsets == {-1, 0, 1, 2}

(***************************************************************************)
(* The index store.                                                        *)
(***************************************************************************)
StudyItem(record, patientRecord, first, last) ==
  [Record |-> record, PatientRecord |-> patientRecord,
   FirstSeries |-> first, LastSeries |-> last]

PatientItem(record, studies) == [Record |-> record, Studies |-> studies]

SeriesItem(record, files) == [Record |-> record, Files |-> files]

\* InsertStudyIfAbsent without the search of the list.
InsertStudyAlways(studies, study) == Append(studies, study)

\* item.Studies->InsertNextValue(study) unless the loop finds study in the list
InsertStudyIfAbsent(studies, study) ==
  IF \E ii \in 1..Len(studies) : studies[ii] = study
  THEN studies
  ELSE Append(studies, study)

\* AddStudy with the continuing-study case (study = n-1) left out.
AddStudyNewOnly(S, nSeries, study, patientRecord, studyRecord) ==
  LET n == Len(S) IN
  IF study = n
  THEN [Studies |-> Append(S, StudyItem(studyRecord, patientRecord, nSeries, nSeries)),
        outcome |-> "ok"]
  ELSE [Studies |-> S, outcome |-> "rejected"]

\* AddStudy with a new study's range starting at the last stored series.
AddStudyFirstOffByOne(S, nSeries, study, patientRecord, studyRecord) ==
  LET n == Len(S)
      first == IF nSeries > 0 THEN nSeries - 1 ELSE 0 IN
  IF study = n
  THEN [Studies |-> Append(S, StudyItem(studyRecord, patientRecord, first, nSeries)),
        outcome |-> "ok"]
  ELSE IF n >= 0 /\ study = n - 1
  THEN IF study >= 0
       THEN [Studies |-> [S EXCEPT ![study + 1].LastSeries = nSeries],
             outcome |-> "ok"]
       ELSE [Studies |-> S, outcome |-> "oob"]
  ELSE [Studies |-> S, outcome |-> "rejected"]

\* AddStudy that leaves the range of a continuing study as it is.
AddStudyLastStale(S, nSeries, study, patientRecord, studyRecord) ==
  LET n == Len(S) IN
  IF study = n
  THEN [Studies |-> Append(S, StudyItem(studyRecord, patientRecord, nSeries, nSeries)),
        outcome |-> "ok"]
  ELSE IF n >= 0 /\ study = n - 1
  THEN [Studies |-> S, outcome |-> IF study >= 0 THEN "ok" ELSE "oob"]
  ELSE [Studies |-> S, outcome |-> "rejected"]

\* The study branch of AddSeriesFileNames: the Studies table after it, and
\* whether the call went on ("ok"), returned ("rejected"), or indexed the
\* table at -1 ("oob").
AddStudy(S, nSeries, study, patientRecord, studyRecord) ==
  LET n == Len(S) IN
  IF study = n
  THEN [Studies |-> Append(S, StudyItem(studyRecord, patientRecord, nSeries, nSeries)),
        outcome |-> "ok"]
  ELSE IF n >= 0 /\ study = n - 1
  THEN IF study >= 0
       THEN [Studies |-> [S EXCEPT ![study + 1].LastSeries = nSeries],
             outcome |-> "ok"]
       ELSE [Studies |-> S, outcome |-> "oob"]
  ELSE [Studies |-> S, outcome |-> "rejected"]

\* AddPatient that stores the record of the call in a continuing patient.
AddPatientRewritingRecord(P, patient, study, patientRecord) ==
  LET m == Len(P) IN
  IF patient = m
  THEN [Patients |-> Append(P, PatientItem(patientRecord, <<study>>)),
        outcome |-> "ok"]
  ELSE IF m >= 0 /\ patient = m - 1
  THEN IF patient >= 0
       THEN [Patients |->
               [P EXCEPT ![patient + 1] =
                  PatientItem(patientRecord, InsertStudyIfAbsent(@.Studies, study))],
             outcome |-> "ok"]
       ELSE [Patients |-> P, outcome |-> "oob"]
  ELSE [Patients |-> P, outcome |-> "rejected"]

\* The patient branch of AddSeriesFileNames.
AddPatient(P, patient, study, patientRecord) ==
  LET m == Len(P) IN
  IF patient = m
  THEN [Patients |-> Append(P, PatientItem(patientRecord, <<study>>)),
        outcome |-> "ok"]
  ELSE IF m >= 0 /\ patient = m - 1
  THEN IF patient >= 0
       THEN [Patients |->
               [P EXCEPT ![patient + 1].Studies = InsertStudyIfAbsent(@, study)],
             outcome |-> "ok"]
       ELSE [Patients |-> P, outcome |-> "oob"]
  ELSE [Patients |-> P, outcome |-> "rejected"]

\* AddSeriesFileNames on the store st = [Patients, Studies, Series]: the store
\* after the call, with the call's result: "ok" (the series was appended),
\* "study" or "patient" (the call returned at that error), and oob (a table
\* was indexed at -1 on the way).
AddSeriesFileNames(st, patient, study, files, patientRecord, studyRecord, seriesRecord) ==
  LET series == Len(st.Series)
      sr == AddStudy(st.Studies, series, study, patientRecord, studyRecord)
      pr == AddPatient(st.Patients, patient, study, patientRecord)
  IN
  IF sr.outcome = "rejected"
  THEN [Patients |-> st.Patients, Studies |-> st.Studies, Series |-> st.Series,
        result |-> "study", oob |-> FALSE]
  ELSE IF pr.outcome = "rejected"
  THEN [Patients |-> st.Patients, Studies |-> sr.Studies, Series |-> st.Series,
        result |-> "patient", oob |-> sr.outcome = "oob"]
  ELSE [Patients |-> pr.Patients, Studies |-> sr.Studies,
        Series |-> Append(st.Series, SeriesItem(seriesRecord, files)),
        result |-> "ok", oob |-> sr.outcome = "oob" \/ pr.outcome = "oob"]

Store == [Patients |-> Patients, Studies |-> Studies, Series |-> Series]

NoDirectory == [items |-> <<>>, root |-> 0]

NoDecoder == [offset |-> 0]

NullName == "(null)"

NullNames == [null |-> TRUE, values |-> <<>>]

NoAdd == [patient |-> 0, study |-> 0, m |-> 0, n |-> 0, series |-> 0,
          result |-> "none", oob |-> FALSE, before |-> <<>>]

\* vtkDICOMDirectory::vtkDICOMDirectory: the three tables start empty.
\* No run came before this one.
NoRun ==
  [ran |-> FALSE, aborted |-> FALSE, Patients |-> <<>>, Studies |-> <<>>,
   Series |-> <<>>, ErrorCode |-> 0, candidates |-> <<>>, input |-> <<>>]

InitStore ==
  /\ Patients = <<>>
  /\ Studies = <<>>
  /\ Series = <<>>
  /\ lastAdd = NoAdd
  /\ calls = 0
  /\ anyRejected = FALSE
  /\ pc = "store"
  /\ Query = FALSE
  /\ FindLevel = "SERIES"
  /\ RequirePixelData = TRUE
  /\ profile = "none"
  /\ ErrorCode = 0
  /\ Progress = 0
  /\ reports = <<>>
  /\ earlier = NoRun
  /\ AbortExecute = FALSE
  /\ abortSeen = FALSE
  /\ numberOfStrings = 0
  /\ input = <<>>
  /\ sortedFiles = <<>>
  /\ dicomdir = NoDirectory
  /\ dec = NoDecoder
  /\ candidates = <<>>
  /\ DirectoryName = NullName
  /\ InputFileNames = NullNames
  /\ ScanDepth = 1
  /\ FollowSymlinks = TRUE
  /\ Visited = <<>>
  /\ walk = <<>>

\* One call of AddSeriesFileNames by a caller of the store, with indices
\* around the current table sizes and records that identify the call.  The
\* callers (SortFiles, ProcessDirectoryFile) start their counters at the table
\* sizes and only increment them, so the indices are never negative.
AddSeriesCall ==
  /\ pc = "store"
  /\ calls < MaxCalls
  /\ UNCHANGED <<pc, cfgVars, runVars, sortVars, decVars, inVars, earlier, walkVars>>
  /\ \E dp \in IndexOffsets, ds \in IndexOffsets :
       LET patient == Len(Patients) + dp
           study == Len(Studies) + ds
           id == calls + 1
           r == AddSeriesFileNames(Store, patient, study, <<id>>,
                                   <<"patient", id>>, <<"study", id>>,
                                   <<"series", id>>)
       IN /\ patient >= 0
          /\ study >= 0
          /\ Patients' = r.Patients
          /\ Studies' = r.Studies
          /\ Series' = r.Series
          /\ lastAdd' = [patient |-> patient, study |-> study,
                         m |-> Len(Patients), n |-> Len(Studies),
                         series |-> Len(Series), result |-> r.result,
                         oob |-> r.oob, before |-> Store]
          /\ calls' = calls + 1
          /\ anyRejected' = (anyRejected \/ r.result # "ok")

NextStore == AddSeriesCall

SpecStore == InitStore /\ [][NextStore]_vars

\* One call of AddSeriesFileNames with a patient index or a study index of
\* -1, as a subclass may make it (the method is not private).  Where the
\* call indexes a table at -1 (lines 375, 393) its behaviour is undefined:
\* the process ends there (pc "crashed"), or the access goes unnoticed and
\* the call goes on with the tables as they are.
AddSeriesCallNegative ==
  /\ pc = "store"
  /\ calls < MaxCalls
  /\ UNCHANGED <<cfgVars, runVars, sortVars, decVars, inVars, earlier, walkVars>>
  /\ \E dp \in IndexOffsets, ds \in IndexOffsets, crash \in BOOLEAN :
       LET patient == Len(Patients) + dp
           study == Len(Studies) + ds
           id == calls + 1
           r == AddSeriesFileNames(Store, patient, study, <<id>>,
                                   <<"patient", id>>, <<"study", id>>,
                                   <<"series", id>>)
           crashed == r.oob /\ crash
       IN /\ patient < 0 \/ study < 0
          /\ Patients' = IF crashed THEN Patients ELSE r.Patients
          /\ Studies' = IF crashed THEN Studies ELSE r.Studies
          /\ Series' = IF crashed THEN Series ELSE r.Series
          /\ lastAdd' = [patient |-> patient, study |-> study,
                         m |-> Len(Patients), n |-> Len(Studies),
                         series |-> Len(Series), result |-> r.result,
                         oob |-> r.oob, before |-> Store]
          /\ calls' = calls + 1
          /\ anyRejected' = (anyRejected \/ r.result # "ok")
          /\ pc' = IF crashed THEN "crashed" ELSE pc

NextStoreAny == AddSeriesCall \/ AddSeriesCallNegative

SpecStoreAny == InitStore /\ [][NextStoreAny]_vars

(***************************************************************************)
(* Values.  A string attribute (vtkDICOMValue) is modelled by a number:    *)
(* NoValue when the attribute is absent (an invalid value, GetCharData()   *)
(* is NULL), EmptyString for "", and 1, 2, ... for non-empty strings in    *)
(* the order strcmp gives them.  A UID is a number in the order            *)
(* CompareUIDs gives.                                                      *)
(***************************************************************************)
NoValue == -1

EmptyString == 0

Sign(x) == IF x < 0 THEN -1 ELSE IF x > 0 THEN 1 ELSE 0

\* (p ? p : "")
OrEmpty(v) == IF v = NoValue THEN EmptyString ELSE v

strcmp(a, b) == Sign(a - b)

\* vtkDICOMUtilities::CompareUIDs: a null UID sorts before any UID.
CompareUIDs(u1, u2) ==
  IF u1 = NoValue \/ u2 = NoValue
  THEN IF u1 # NoValue THEN 1 ELSE IF u2 # NoValue THEN -1 ELSE 0
  ELSE Sign(u1 - u2)

\* AsUnsignedInt() of an attribute that may be absent
AsUnsignedInt(v) == IF v = NoValue THEN 0 ELSE v

\* An unsigned 32-bit number u is held as the signed 32-bit number with the
\* same bits (u itself below 2^31, u - 2^32 from 2^31 on), in 16-bit halves.
TwoTo16 == 65536

TwoTo15 == 32768

HighHalf(x) == x \div TwoTo16

LowHalf(x) == x % TwoTo16

\* The unsigned 32-bit number with the 16-bit halves hi and lo, as held.
UnsignedOfHalves(hi, lo) ==
  (IF hi >= TwoTo15 THEN hi - TwoTo16 ELSE hi) * TwoTo16 + lo

\* a < b for unsigned int a, b.
UnsignedLess(a, b) ==
  \/ HighHalf(a) % TwoTo16 < HighHalf(b) % TwoTo16
  \/ HighHalf(a) = HighHalf(b) /\ LowHalf(a) < LowHalf(b)

\* int c2 = a - b for unsigned int a, b: the 32-bit difference, wrapped.
UnsignedDiffAsInt(a, b) ==
  LET lo == (LowHalf(a) - LowHalf(b)) % TwoTo16
      borrow == IF LowHalf(a) < LowHalf(b) THEN 1 ELSE 0
      hi == ((HighHalf(a) - HighHalf(b) - borrow + TwoTo15) % TwoTo16) - TwoTo15
  IN hi * TwoTo16 + lo

(***************************************************************************)
(* SortFiles: the comparison of a file with an open series group.          *)
(***************************************************************************)
\* A patient level at which the name decides when the IDs tie or one of
\* them is empty, and the ID otherwise.
ComparePatientNameOnTie(li, f) ==
  LET patientID == OrEmpty(f.PatientID)
      c == strcmp(OrEmpty(li.PatientID), patientID)
      c2 == strcmp(OrEmpty(li.PatientName), OrEmpty(f.PatientName))
  IN IF c = 0 \/ patientID = EmptyString \/ OrEmpty(li.PatientID) = EmptyString
     THEN c2
     ELSE c

\* Patient level (lines 647-657); li is the group, f the file.
ComparePatient(li, f) ==
  LET patientID == OrEmpty(f.PatientID)
      c == strcmp(OrEmpty(li.PatientID), patientID)
      c2 == strcmp(OrEmpty(li.PatientName), OrEmpty(f.PatientName))
  IN IF c # 0 \/ patientID = EmptyString
     THEN (IF c2 = 0 THEN c ELSE c2)
     ELSE c

\* Study level (lines 660-680).
CompareStudy(li, f) ==
  LET c == CompareUIDs(f.StudyUID, li.StudyUID)
      d == strcmp(li.StudyDate, f.StudyDate)
      t == IF li.StudyTime # NoValue /\ f.StudyTime # NoValue
           THEN strcmp(f.StudyTime, li.StudyTime)
           ELSE 0
      c2 == IF f.StudyDate # NoValue /\ li.StudyDate # NoValue
            THEN (IF d = 0 THEN t ELSE d)
            ELSE 0
  IN IF c # 0 \/ f.StudyUID = NoValue
     THEN (IF c2 = 0 THEN c ELSE c2)
     ELSE c

\* Series level (lines 683-690).
CompareSeries(li, f) ==
  LET c == CompareUIDs(f.SeriesUID, li.SeriesUID)
      c2 == UnsignedDiffAsInt(li.SeriesNumber, AsUnsignedInt(f.SeriesNumber))
  IN IF c # 0 \/ f.SeriesUID = NoValue
     THEN (IF c2 = 0 THEN c ELSE c2)
     ELSE c

\* The value of c at line 693.
CompareGroup(li, f) ==
  LET cp == ComparePatient(li, f) IN
  IF cp # 0 THEN cp
  ELSE LET cs == CompareStudy(li, f) IN
       IF cs # 0 THEN cs ELSE CompareSeries(li, f)

\* A file joins any group it ties with.
JoinsGroupOnTie(li, f) == CompareGroup(li, f) = 0

\* The file joins group li (line 693).
JoinsGroup(li, f) == CompareGroup(li, f) = 0 /\ f.SeriesUID # NoValue

\* The loop of lines 644-704 from position i on: where it stops, and whether
\* it stopped at a group the file joins.
RECURSIVE FindGroup(_, _, _)
FindGroup(list, f, i) ==
  IF i > Len(list) THEN [at |-> i, foundSeries |-> FALSE]
  ELSE IF JoinsGroup(list[i], f) THEN [at |-> i, foundSeries |-> TRUE]
  ELSE IF CompareGroup(list[i], f) >= 0 THEN [at |-> i, foundSeries |-> FALSE]
  ELSE FindGroup(list, f, i + 1)

FileInfo(f) ==
  [InstanceNumber |-> AsUnsignedInt(f.InstanceNumber), FileName |-> f.name]

\* FillPatientRecord, FillStudyRecord, FillSeriesRecord: the attributes of
\* the file's header that each record copies.
FillPatientRecord(f) == <<"patient", f.PatientName, f.PatientID>>

FillStudyRecord(f) == <<"study", f.StudyDate, f.StudyTime, f.StudyUID>>

FillSeriesRecord(f) == <<"series", f.SeriesUID, f.SeriesNumber>>

\* A new SeriesInfo (lines 708-719); StudyTime is not assigned there and
\* stays an invalid value.
SeriesInfo(f, queryMatched) ==
  [PatientRecord |-> FillPatientRecord(f),
   PatientName |-> f.PatientName,
   PatientID |-> f.PatientID,
   StudyRecord |-> FillStudyRecord(f),
   StudyDate |-> f.StudyDate,
   StudyTime |-> NoValue,
   StudyUID |-> f.StudyUID,
   SeriesRecord |-> FillSeriesRecord(f),
   SeriesUID |-> f.SeriesUID,
   SeriesNumber |-> AsUnsignedInt(f.SeriesNumber),
   Files |-> <<FileInfo(f)>>,
   QueryMatched |-> queryMatched]

InsertAt(list, i, x) == SubSeq(list, 1, i - 1) \o <<x>> \o SubSeq(list, i, Len(list))

\* Lines 643-720: the list of groups after the file has been put into it.
InsertFile(list, f, queryMatched) ==
  LET r == FindGroup(list, f, 1) IN
  IF r.foundSeries
  THEN [list EXCEPT ![r.at].Files = Append(@, FileInfo(f)),
                    ![r.at].QueryMatched = @ \/ queryMatched]
  ELSE InsertAt(list, r.at, SeriesInfo(f, queryMatched))

(***************************************************************************)
(* SortFiles: the final pass (lines 723-763).                              *)
(***************************************************************************)
\* CompareInstance with "not greater" for "less".
CompareInstanceOrEqual(fi1, fi2) == fi1.InstanceNumber <= fi2.InstanceNumber

CompareInstance(fi1, fi2) == fi1.InstanceNumber < fi2.InstanceNumber

\* std::stable_sort with CompareInstance, as a stable insertion sort: each
\* element goes after the elements that are not greater than it.
RECURSIVE StableInsert(_, _)
StableInsert(sorted, x) ==
  IF sorted = <<>> THEN <<x>>
  ELSE IF CompareInstance(x, sorted[Len(sorted)])
       THEN Append(StableInsert(SubSeq(sorted, 1, Len(sorted) - 1), x),
                   sorted[Len(sorted)])
       ELSE Append(sorted, x)

RECURSIVE StableSort(_)
StableSort(files) ==
  IF files = <<>> THEN <<>>
  ELSE StableInsert(StableSort(SubSeq(files, 1, Len(files) - 1)), files[Len(files)])

FileNames(files) == [i \in 1..Len(files) |-> files[i].FileName]

\* A final pass in which the study UID alone tells a new study.
NewStudyByUID(newPatient, studyUID, lastStudyUID) ==
  lastStudyUID = NoValue \/ studyUID # lastStudyUID

\* Lines 739-750: the group starts a new study: it starts a new patient, or
\* no study UID is kept, or its study UID is another one.
NewStudy(newPatient, studyUID, lastStudyUID) ==
  newPatient \/ lastStudyUID = NoValue \/ studyUID # lastStudyUID

\* A final pass that hands over the counts themselves as indices.
IndexIsCount(count) == count

\* Line 761: patientCount-1 and studyCount-1, the indices of the patient
\* and the study counted last.
IndexOfCount(count) == count - 1

\* The loop of lines 730-763 from group i on.  w carries the store, the
\* counters and the last patient ID and study UID seen.
RECURSIVE FinalPass(_, _, _)
FinalPass(list, i, w) ==
  IF i > Len(list) THEN w
  ELSE
    LET v == list[i] IN
    IF ~v.QueryMatched THEN FinalPass(list, i + 1, w)
    ELSE
      LET newPatient == w.lastPatientID = NoValue \/ v.PatientID # w.lastPatientID
          newStudy == NewStudy(newPatient, v.StudyUID, w.lastStudyUID)
          patientCount == IF newPatient THEN w.patientCount + 1 ELSE w.patientCount
          studyCount == IF newStudy THEN w.studyCount + 1 ELSE w.studyCount
          r == AddSeriesFileNames(w.store, IndexOfCount(patientCount),
                 IndexOfCount(studyCount), FileNames(StableSort(v.Files)),
                 v.PatientRecord, v.StudyRecord, v.SeriesRecord)
      IN FinalPass(list, i + 1,
           [store |-> [Patients |-> r.Patients, Studies |-> r.Studies,
                       Series |-> r.Series],
            patientCount |-> patientCount,
            studyCount |-> studyCount,
            lastPatientID |-> IF newPatient THEN v.PatientID ELSE w.lastPatientID,
            lastStudyUID |-> IF newStudy THEN v.StudyUID ELSE w.lastStudyUID,
            rejected |-> w.rejected \/ r.result # "ok",
            added |-> w.added + 1,
            last |-> [patient |-> IndexOfCount(patientCount),
                      study |-> IndexOfCount(studyCount),
                      m |-> Len(w.store.Patients), n |-> Len(w.store.Studies),
                      series |-> Len(w.store.Series), result |-> r.result,
                      oob |-> r.oob, before |-> w.store]])

(***************************************************************************)
(* The files SortFiles reads.  A file is what the parser reports for it:   *)
(* isDICOM (vtkDICOMUtilities::IsDICOMFile), pixelDataFound, errorCode     *)
(* (0: none), queryMatched, and the attributes of its header.              *)
(***************************************************************************)
MaxFiles == 3

DefaultFile ==
  [name |-> 0, isDICOM |-> TRUE, pixelDataFound |-> TRUE, errorCode |-> 0,
   queryMatched |-> TRUE, InstanceNumber |-> 1,
   PatientName |-> 1, PatientID |-> 1,
   StudyDate |-> 1, StudyTime |-> 1, StudyUID |-> 1,
   SeriesUID |-> 1, SeriesNumber |-> 1]

\* "keys": files that differ in patient ID, patient name, study UID
\* (present or absent) and series UID.
KeyFiles ==
  { [DefaultFile EXCEPT !.PatientID = pid, !.PatientName = pn,
                        !.StudyUID = su, !.SeriesUID = se] :
      pid \in {1, 2}, pn \in {1, 2}, su \in {NoValue, 1}, se \in {1, 2} }

\* "patient": files that differ in patient ID (absent, or one of two) and
\* patient name.
PatientFiles ==
  { [DefaultFile EXCEPT !.PatientID = pid, !.PatientName = pn] :
      pid \in {NoValue, 1, 2}, pn \in {1, 2} }

\* "study": files of one patient that differ in study UID, study date
\* (absent, or one of two) and study time.
StudyFiles ==
  { [DefaultFile EXCEPT !.StudyUID = su, !.StudyDate = sd, !.StudyTime = st] :
      su \in {NoValue, 1, 2}, sd \in {NoValue, 1, 2}, st \in {1, 2} }

\* "series": files of one study that differ in series UID and series
\* number (absent, or one of two).
SeriesFiles ==
  { [DefaultFile EXCEPT !.SeriesUID = se, !.SeriesNumber = sn] :
      se \in {NoValue, 1, 2}, sn \in {NoValue, 1, 2} }

\* "wide": files of two series of one study with series numbers 1,
\* 2^31 + 1 and 2^32 - 2.
WideFiles ==
  { [DefaultFile EXCEPT !.SeriesUID = se, !.SeriesNumber = sn] :
      se \in {1, 2},
      sn \in {1, UnsignedOfHalves(TwoTo15, 1), UnsignedOfHalves(TwoTo16 - 1, TwoTo16 - 2)} }

\* "order": files of two series with instance numbers 1..3.
OrderFiles ==
  { [DefaultFile EXCEPT !.InstanceNumber = k, !.SeriesUID = se] :
      k \in {1, 2, 3}, se \in {1, 2} }

\* "query": files of two series that match the query or do not.
QueryFiles ==
  { [DefaultFile EXCEPT !.queryMatched = q, !.InstanceNumber = k, !.SeriesUID = se] :
      q \in BOOLEAN, k \in {1, 2}, se \in {1, 2} }

\* "errors": files that are not DICOM files, that have no pixel data, or that
\* the parser fails on with error code 1 or 2.
ErrorFiles ==
  { [DefaultFile EXCEPT !.isDICOM = FALSE] }
  \cup { [DefaultFile EXCEPT !.pixelDataFound = (e = -1), !.SeriesUID = se,
                             !.errorCode = IF e = -1 THEN 0 ELSE e] :
           e \in {-1, 0, 1, 2}, se \in {1, 2} }

\* The files of a run, as the parser finds them: two series, a file without
\* pixel data on which the parser fails, and a file that is not DICOM.
RunFiles ==
  { [DefaultFile EXCEPT !.SeriesUID = s] : s \in {1, 2} }
  \cup { [DefaultFile EXCEPT !.pixelDataFound = FALSE, !.errorCode = 1] }
  \cup { [DefaultFile EXCEPT !.isDICOM = FALSE] }

InputFiles(p) ==
  CASE p = "keys" -> KeyFiles
    [] p = "patient" -> PatientFiles
    [] p = "study" -> StudyFiles
    [] p = "series" -> SeriesFiles
    [] p = "wide" -> WideFiles
    [] p = "order" -> OrderFiles
    [] p = "query" -> QueryFiles
    [] p = "errors" -> ErrorFiles
    [] p = "run" -> RunFiles
    [] OTHER -> {}

\* The configurations (profile, Query, FindLevel, RequirePixelData) of a run.
SortConfigs ==
  { <<"keys", FALSE, "SERIES", TRUE>>, <<"order", FALSE, "IMAGE", TRUE>> }
  \cup { <<p, FALSE, "SERIES", TRUE>> : p \in {"patient", "study", "series", "wide"} }
  \cup { <<"query", TRUE, lv, TRUE>> : lv \in {"SERIES", "IMAGE"} }
  \cup { <<"errors", FALSE, "SERIES", rp>> : rp \in BOOLEAN }

(***************************************************************************)
(* SortFiles: one iteration of the loop over the files (lines 563-721).    *)
(***************************************************************************)
\* RelayError, called for the parser's ErrorEvent: SetErrorCode(parser code).
RelayError(code, parserCode) == IF parserCode # 0 THEN parserCode ELSE code

\* Lines 578-583: the error code kept when no pixel data was found.
RetainErrorCode(code, f) ==
  IF ~f.pixelDataFound /\ code = 0 THEN f.errorCode ELSE code

\* Line 584: the file is skipped.
SkipNoPixelData(code, f) ==
  ~f.pixelDataFound /\ (code # 0 \/ RequirePixelData)

\* Line 594, with j+1 files of n read and the progress in whole percent.
ProgressDue(j1, n) == j1 = n \/ j1 * 100 > (Progress + 1) * n

\* Line 606-607: the file is dropped for the query.
QueryMatchedFile(f) == ~Query \/ f.queryMatched

\* SkipForQuery that drops no file.
SkipForQueryNever(f) == FALSE

\* SkipForQuery that drops a file failing the query at every find level.
SkipForQueryAnyLevel(f) == ~QueryMatchedFile(f)

\* SkipForQuery that tests for the other find level.
SkipForQueryWrongLevel(f) == ~QueryMatchedFile(f) /\ FindLevel = "SERIES"

SkipForQuery(f) == ~QueryMatchedFile(f) /\ FindLevel = "IMAGE"

\* Lines 566-588: file f is read.  Gives [ErrorCode, skipped].
ReadFile(f) ==
  LET code == RetainErrorCode(RelayError(ErrorCode, f.errorCode), f) IN
  IF ~f.isDICOM THEN [ErrorCode |-> ErrorCode, skipped |-> TRUE]
  ELSE [ErrorCode |-> code, skipped |-> SkipNoPixelData(code, f)]

\* SortFile that reports the part of the list still to be read.
SortFileRemaining(f, cb) ==
  LET j1 == Len(input)
      reported == ~AbortExecute /\ ProgressDue(j1, numberOfStrings)
      abort == AbortExecute \/ (reported /\ cb)
  IN [Progress |-> IF reported
                   THEN ((numberOfStrings - j1) * 100) \div numberOfStrings
                   ELSE Progress,
      AbortExecute |-> abort,
      returned |-> abort,
      sortedFiles |-> IF abort \/ SkipForQuery(f) THEN sortedFiles
                      ELSE InsertFile(sortedFiles, f, QueryMatchedFile(f))]

\* Lines 590-720: the checkpoint after file f has been read, and the
\* insertion of f; cb: the caller sets AbortExecute while it handles the
\* progress event.  Gives [Progress, AbortExecute, returned, sortedFiles].
SortFile(f, cb) ==
  LET j1 == Len(input)
      reported == ~AbortExecute /\ ProgressDue(j1, numberOfStrings)
      abort == AbortExecute \/ (reported /\ cb)
  IN [Progress |-> IF reported THEN (j1 * 100) \div numberOfStrings ELSE Progress,
      AbortExecute |-> abort,
      returned |-> abort,
      sortedFiles |-> IF abort \/ SkipForQuery(f) THEN sortedFiles
                      ELSE InsertFile(sortedFiles, f, QueryMatchedFile(f))]

\* SortFiles is entered with an empty store (Execute has cleared it).
InitSort ==
  /\ Patients = <<>>
  /\ Studies = <<>>
  /\ Series = <<>>
  /\ lastAdd = NoAdd
  /\ calls = 0
  /\ anyRejected = FALSE
  /\ pc = "sort"
  /\ \E c \in SortConfigs :
       /\ profile = c[1]
       /\ Query = c[2]
       /\ FindLevel = c[3]
       /\ RequirePixelData = c[4]
  /\ ErrorCode = 0
  /\ Progress = 0
  /\ reports = <<>>
  /\ earlier = NoRun
  /\ AbortExecute = FALSE
  /\ abortSeen = FALSE
  /\ numberOfStrings \in 1..MaxFiles
  /\ input = <<>>
  /\ sortedFiles = <<>>
  /\ dicomdir = NoDirectory
  /\ dec = NoDecoder
  /\ candidates = <<>>
  /\ DirectoryName = NullName
  /\ InputFileNames = NullNames
  /\ ScanDepth = 1
  /\ FollowSymlinks = TRUE
  /\ Visited = <<>>
  /\ walk = <<>>

\* The files are unchanged since the run before: when the same list of
\* candidates is read again, each file is what it was.
Unchanged(f) ==
  (earlier.ran /\ candidates = earlier.candidates /\ f.name <= Len(earlier.input))
    => f = earlier.input[f.name]

\* The next file of the list is read.
SortNextFile ==
  /\ pc = "sort"
  /\ Len(input) < numberOfStrings
  /\ \E f0 \in InputFiles(profile) :
       LET f == [f0 EXCEPT !.name = Len(input) + 1]
           r == ReadFile(f)
       IN /\ Unchanged(f)
          /\ input' = Append(input, f)
          /\ ErrorCode' = r.ErrorCode
          /\ pc' = IF r.skipped THEN "sort" ELSE "check"
  /\ UNCHANGED <<storeVars, lastAdd, calls, anyRejected, cfgVars, Progress, reports,
                 AbortExecute, abortSeen, numberOfStrings, sortedFiles,
                 decVars, inVars, earlier, walkVars>>

\* The checkpoint of lines 590-603 and, unless SortFiles returns there, the
\* rest of the iteration for the file that was read.
SortCheckpoint ==
  /\ pc = "check"
  /\ \E cb \in BOOLEAN :
       LET r == SortFile(input[Len(input)], cb)
       IN /\ cb => r.returned
          /\ sortedFiles' = r.sortedFiles
          /\ Progress' = r.Progress
          /\ reports' = IF ~AbortExecute /\ ProgressDue(Len(input), numberOfStrings)
                        THEN Append(reports, r.Progress) ELSE reports
          /\ AbortExecute' = r.AbortExecute
          /\ abortSeen' = (abortSeen \/ r.returned)
          /\ pc' = IF r.returned THEN "done" ELSE "sort"
  /\ UNCHANGED <<storeVars, lastAdd, calls, anyRejected, cfgVars, ErrorCode,
                 numberOfStrings, input, decVars, inVars, earlier, walkVars>>

\* The final pass, after the last file.
SortFinish ==
  /\ pc = "sort"
  /\ Len(input) = numberOfStrings
  /\ LET w == FinalPass(sortedFiles, 1,
                [store |-> Store,
                 patientCount |-> Len(Patients), studyCount |-> Len(Studies),
                 lastPatientID |-> NoValue, lastStudyUID |-> NoValue,
                 rejected |-> FALSE, added |-> 0, last |-> lastAdd])
     IN /\ Patients' = w.store.Patients
        /\ Studies' = w.store.Studies
        /\ Series' = w.store.Series
        /\ lastAdd' = w.last
        /\ calls' = calls + w.added
        /\ anyRejected' = (anyRejected \/ w.rejected)
  /\ pc' = "done"
  /\ UNCHANGED <<cfgVars, runVars, sortVars, decVars, inVars, earlier, walkVars>>

\* The caller sets the cancellation flag (SetAbortExecute) during the run.
SetAbortExecute ==
  /\ pc \in {"idle", "run", "decode", "sort", "check"}
  /\ ~AbortExecute
  /\ AbortExecute' = TRUE
  /\ UNCHANGED <<storeVars, lastAdd, calls, anyRejected, pc, cfgVars,
                 ErrorCode, Progress, reports, abortSeen, sortVars, decVars, inVars, earlier, walkVars>>

NextSort == SortNextFile \/ SortCheckpoint \/ SortFinish \/ SetAbortExecute

SpecSort == InitSort /\ [][NextSort]_vars

(***************************************************************************)
(* ProcessDirectoryFile: the DICOMDIR decoder.                             *)
(*                                                                         *)
(* dicomdir = [items, root]: the directory record sequence, in its         *)
(* physical order, and the offset of the first record of the root entity.  *)
(* An item is [ByteOffset, Next, Child, Type, FileID, Label]; offset 0     *)
(* means "none", FileID is <<>> when the record names no file   , Label    *)
(* stands for the record's content.                                        *)
(***************************************************************************)
MaxDim == 2

Item(offset, next, child, type, fileID, label) ==
  [ByteOffset |-> offset, Next |-> next, Child |-> child, Type |-> type,
   FileID |-> fileID, Label |-> label]

\* offsetToIndexMap (lines 785-789): the index of the last item at the offset,
\* 0 when no item is there.
OffsetToIndex(items, offset) ==
  LET at == { i \in 1..Len(items) : items[i].ByteOffset = offset } IN
  IF at = {} THEN 0 ELSE CHOOSE i \in at : \A k \in at : k <= i

\* A decoder that starts at the first record of the array whatever the root
\* offset says.
FirstOffsetPhysical(dd) ==
  IF Len(dd.items) > 0 THEN dd.items[1].ByteOffset ELSE dd.root

\* Lines 792-801: the offset the loop starts at.
FirstOffset(dd) ==
  IF dd.root = 0 /\ Len(dd.items) > 0 THEN dd.items[1].ByteOffset ELSE dd.root

\* The locals of ProcessDirectoryFile at the head of the loop of line 828.
\* used: the offsets whose map entry has been marked 0xffffffff; visits: the
\* indices j of the records the body of line 835 was entered for, in order.
DecoderStart(dd, nPatients, nStudies) ==
  [offset |-> FirstOffset(dd), offsetStack |-> <<>>, used |-> {},
   patientIdx |-> nPatients, studyIdx |-> nStudies,
   patientItem |-> 1, studyItem |-> 1, seriesItem |-> 1,
   fileNames |-> <<>>, entryType |-> "", visits |-> <<>>]

\* vtksys::SystemTools::JoinPath of the directory and the file ID components.
JoinPath(fileID) == <<"file", fileID>>

\* A decoder that reads the record at the current offset whether or not it
\* has read it before.
ReadRecordAgain(d, items, requirePixelData) ==
  LET j == OffsetToIndex(items, d.offset) IN
  IF j = 0
  THEN [d EXCEPT !.offset = 0] @@ [offsetOfChild |-> 0]
  ELSE
    LET it == items[j]
        isLeaf == it.Type \notin {"PATIENT", "STUDY", "SERIES"}
                  /\ (it.Type = "IMAGE" \/ ~requirePixelData)
    IN [d EXCEPT !.offset = it.Next,
                 !.visits = Append(@, j),
                 !.entryType = it.Type,
                 !.patientItem = IF it.Type = "PATIENT" THEN j ELSE @,
                 !.studyItem = IF it.Type = "STUDY" THEN j ELSE @,
                 !.seriesItem = IF it.Type = "SERIES" THEN j ELSE @,
                 !.fileNames = IF isLeaf /\ it.FileID # <<>>
                               THEN Append(@, JoinPath(it.FileID)) ELSE @]
       @@ [offsetOfChild |-> it.Child]

\* Lines 835-880: the record at the current offset is read.  Gives the
\* locals after it, with offsetOfChild.
ReadRecord(d, items, requirePixelData) ==
  LET j == OffsetToIndex(items, d.offset) IN
  IF j = 0 \/ d.offset \in d.used
  THEN [d EXCEPT !.offset = 0] @@ [offsetOfChild |-> 0]
  ELSE
    LET it == items[j]
        isLeaf == it.Type \notin {"PATIENT", "STUDY", "SERIES"}
                  /\ (it.Type = "IMAGE" \/ ~requirePixelData)
    IN [d EXCEPT !.offset = it.Next,
                 !.used = @ \cup {d.offset},
                 !.visits = Append(@, j),
                 !.entryType = it.Type,
                 !.patientItem = IF it.Type = "PATIENT" THEN j ELSE @,
                 !.studyItem = IF it.Type = "STUDY" THEN j ELSE @,
                 !.seriesItem = IF it.Type = "SERIES" THEN j ELSE @,
                 !.fileNames = IF isLeaf /\ it.FileID # <<>>
                               THEN Append(@, JoinPath(it.FileID)) ELSE @]
       @@ [offsetOfChild |-> it.Child]

\* A decoder that hands over the first record of the array for every level.
ItemRecordOfFirst(items, j) == IF 1 \in 1..Len(items) THEN <<items[1].Type, items[1].Label>> ELSE <<>>

\* items[patientItem], items[studyItem], items[seriesItem] of line 921, as
\* the content of the record.
ItemRecord(items, j) == IF j \in 1..Len(items) THEN <<items[j].Type, items[j].Label>> ELSE <<>>

\* Lines 891-925: the stack is popped until the next offset is not zero.
\* w = [d, store, files, added, rejected, last]; capture: a list of file
\* names was given to ProcessDirectoryFile.
RECURSIVE PopLevels(_, _, _)
PopLevels(w, items, capture) ==
  LET d == w.d IN
  IF ~(d.offset = 0 /\ Len(d.offsetStack) > 0) THEN w
  ELSE
    LET top == d.offsetStack[Len(d.offsetStack)]
        entryType == top[2]
        d1 == [d EXCEPT !.offset = top[1], !.entryType = entryType,
                        !.offsetStack = SubSeq(@, 1, Len(@) - 1)]
    IN
    IF entryType = "PATIENT"
    THEN PopLevels([w EXCEPT !.d = [d1 EXCEPT !.patientIdx = @ + 1]], items, capture)
    ELSE IF entryType = "STUDY"
    THEN PopLevels([w EXCEPT !.d = [d1 EXCEPT !.studyIdx = @ + 1]], items, capture)
    ELSE IF entryType = "SERIES"
    THEN
      IF capture
      THEN PopLevels([w EXCEPT !.d = [d1 EXCEPT !.fileNames = <<>>],
                               !.files = @ \o d.fileNames], items, capture)
      ELSE
        LET r == AddSeriesFileNames(w.store, d.patientIdx, d.studyIdx, d.fileNames,
                   ItemRecord(items, d.patientItem), ItemRecord(items, d.studyItem),
                   ItemRecord(items, d.seriesItem))
        IN PopLevels(
             [d |-> [d1 EXCEPT !.fileNames = <<>>],
              store |-> [Patients |-> r.Patients, Studies |-> r.Studies,
                         Series |-> r.Series],
              files |-> w.files,
              added |-> w.added + 1,
              rejected |-> w.rejected \/ r.result # "ok",
              last |-> [patient |-> d.patientIdx, study |-> d.studyIdx,
                        m |-> Len(w.store.Patients), n |-> Len(w.store.Studies),
                        series |-> Len(w.store.Series), result |-> r.result,
                        oob |-> r.oob, before |-> w.store]],
             items, capture)
    ELSE PopLevels([w EXCEPT !.d = d1], items, capture)

\* A decoder that adds every series to the tables, whether or not a list of
\* file names was given to it.
DecodeRecordDirect(w, items, requirePixelData, capture) ==
  LET r == ReadRecord(w.d, items, requirePixelData)
      d == [k \in DOMAIN w.d |-> r[k]]
  IN IF r.offsetOfChild # 0
     THEN [w EXCEPT !.d = [d EXCEPT !.offsetStack = Append(@, <<d.offset, d.entryType>>),
                                    !.offset = r.offsetOfChild]]
     ELSE PopLevels([w EXCEPT !.d = d], items, FALSE)

\* One iteration of the loop of lines 828-927.
DecodeRecord(w, items, requirePixelData, capture) ==
  LET r == ReadRecord(w.d, items, requirePixelData)
      d == [k \in DOMAIN w.d |-> r[k]]
  IN IF r.offsetOfChild # 0
     THEN [w EXCEPT !.d = [d EXCEPT !.offsetStack = Append(@, <<d.offset, d.entryType>>),
                                    !.offset = r.offsetOfChild]]
     ELSE PopLevels([w EXCEPT !.d = d], items, capture)

(***************************************************************************)
(* Well-formed directories: P patients, S studies per patient, N series    *)
(* per study, F images per series, linked in document order and laid out   *)
(* in the item sequence in one of several physical orders.                 *)
(***************************************************************************)
TreeSize(P, S, N, F) == P * (1 + S * (1 + N * (1 + F)))

\* The 0-based position in document order of the record with this label.
DocIndex(label, S, N, F) ==
  LET seriesSize == 1 + F
      studySize == 1 + N * seriesSize
      patientSize == 1 + S * studySize
      ip == (label[1] - 1) * patientSize
      is == ip + 1 + (label[2] - 1) * studySize
      ise == is + 1 + (label[3] - 1) * seriesSize
  IN CASE Len(label) = 1 -> ip
       [] Len(label) = 2 -> is
       [] Len(label) = 3 -> ise
       [] OTHER -> ise + label[4]

TreeLabels(P, S, N, F) ==
  { <<p>> : p \in 1..P }
  \cup { <<p, s>> : p \in 1..P, s \in 1..S }
  \cup { <<p, s, n>> : p \in 1..P, s \in 1..S, n \in 1..N }
  \cup { <<p, s, n, f>> : p \in 1..P, s \in 1..S, n \in 1..N, f \in 1..F }

RECURSIVE Gcd(_, _)
Gcd(a, b) == IF b = 0 THEN a ELSE Gcd(b, a % b)

PhysicalOrders == {"document", "reverse", "stride"}

\* The 1-based position in the item sequence of the record that is k-th
\* (0-based) in document order, of T records.
PhysicalIndex(order, k, T) ==
  CASE order = "document" -> k + 1
    [] order = "reverse" -> T - k
    [] OTHER ->
       LET s == CHOOSE x \in 1..T : Gcd(x, T) = 1 /\ (x > 1 \/ T <= 2)
                                    /\ \A y \in 2..(x - 1) : Gcd(y, T) # 1
       IN ((k * s) % T) + 1

ByteOffsetOf(i) == 100 * i

LevelType(label) ==
  CASE Len(label) = 1 -> "PATIENT"
    [] Len(label) = 2 -> "STUDY"
    [] Len(label) = 3 -> "SERIES"
    [] OTHER -> "IMAGE"

WellFormedTree(P, S, N, F, order) ==
  LET T == TreeSize(P, S, N, F)
      labels == TreeLabels(P, S, N, F)
      dims == <<P, S, N, F>>
      off(label) == ByteOffsetOf(PhysicalIndex(order, DocIndex(label, S, N, F), T))
      next(label) ==
        IF label[Len(label)] < dims[Len(label)]
        THEN off([label EXCEPT ![Len(label)] = @ + 1])
        ELSE 0
      child(label) == IF Len(label) < 4 THEN off(Append(label, 1)) ELSE 0
      at(i) == CHOOSE label \in labels :
                 PhysicalIndex(order, DocIndex(label, S, N, F), T) = i
  IN [items |-> [i \in 1..T |->
                   Item(ByteOffsetOf(i), next(at(i)), child(at(i)), LevelType(at(i)),
                        IF Len(at(i)) = 4 THEN at(i) ELSE <<>>, at(i))],
      root |-> off(<<1>>),
      shape |-> [P |-> P, S |-> S, N |-> N, F |-> F, order |-> order]]

WellFormedTrees ==
  { WellFormedTree(P, S, N, F, order) :
      P \in 1..MaxDim, S \in 1..MaxDim, N \in 1..MaxDim, F \in 1..MaxDim,
      order \in PhysicalOrders }

\* label is the label of a record below the record labelled cut.
Below(cut, label) ==
  Len(label) > Len(cut) /\ SubSeq(label, 1, Len(cut)) = cut

\* The directory dd without the records below the record labelled cut, which
\* is left without a lower level: its child offset is 0.
Pruned(dd, cut) ==
  LET Kept(it) == ~Below(cut, it.Label)
      kept == SelectSeq(dd.items, Kept)
  IN [items |-> [i \in 1..Len(kept) |->
                   IF kept[i].Label = cut THEN [kept[i] EXCEPT !.Child = 0]
                   ELSE kept[i]],
      root |-> dd.root, shape |-> dd.shape, cut |-> cut]

\* Directories in which one patient, one study or one series has no
\* descendants.
SparseTrees ==
  UNION { { Pruned(WellFormedTree(P, S, N, 1, "reverse"), cut) :
              cut \in { l \in TreeLabels(P, S, N, 1) : Len(l) <= 3 } } :
          P \in 1..MaxDim, S \in 1..MaxDim, N \in 1..MaxDim }

\* ProcessDirectory has found and parsed a DICOMDIR (lines 987-998) and
\* calls ProcessDirectoryFile, with the list of file names if a query is set.
InitDecode ==
  /\ Patients = <<>>
  /\ Studies = <<>>
  /\ Series = <<>>
  /\ lastAdd = NoAdd
  /\ calls = 0
  /\ anyRejected = FALSE
  /\ pc = "decode"
  /\ Query \in BOOLEAN
  /\ FindLevel = "SERIES"
  /\ RequirePixelData \in BOOLEAN
  /\ profile \in {"dicomdir", "sparse"}
  /\ ErrorCode = 0
  /\ Progress = 0
  /\ reports = <<>>
  /\ earlier = NoRun
  /\ AbortExecute = FALSE
  /\ abortSeen = FALSE
  /\ numberOfStrings = 0
  /\ input = <<>>
  /\ sortedFiles = <<>>
  /\ dicomdir \in (IF profile = "sparse" THEN SparseTrees ELSE WellFormedTrees)
  /\ dec = DecoderStart(dicomdir, 0, 0)
  /\ candidates = <<>>
  /\ DirectoryName = NullName
  /\ InputFileNames = NullNames
  /\ ScanDepth = 1
  /\ FollowSymlinks = TRUE
  /\ Visited = <<>>
  /\ walk = <<>>

\* One iteration of the decoder's loop.
DecodeNext ==
  /\ pc = "decode"
  /\ dec.offset # 0
  /\ LET w == DecodeRecord([d |-> dec, store |-> Store, files |-> candidates, added |-> 0,
                            rejected |-> FALSE, last |-> lastAdd],
                           dicomdir.items, RequirePixelData, Query)
     IN /\ dec' = w.d
        /\ Patients' = w.store.Patients
        /\ Studies' = w.store.Studies
        /\ Series' = w.store.Series
        /\ candidates' = w.files
        /\ lastAdd' = w.last
        /\ calls' = calls + w.added
        /\ anyRejected' = (anyRejected \/ w.rejected)
  /\ UNCHANGED <<pc, cfgVars, runVars, sortVars, dicomdir, inVars, earlier, walkVars>>

\* The loop ends (offset is 0) and ProcessDirectoryFile returns, and so does
\* the ProcessDirectory that called it (line 999).
DecodeReturn ==
  /\ pc = "decode"
  /\ dec.offset = 0
  /\ pc' = IF walk = <<>> THEN "done" ELSE "run"
  /\ walk' = IF walk = <<>> THEN walk ELSE SubSeq(walk, 1, Len(walk) - 1)
  /\ UNCHANGED <<storeVars, lastAdd, calls, anyRejected, cfgVars, runVars,
                 sortVars, decVars, inVars, earlier, Visited>>

NextDecode == DecodeNext \/ DecodeReturn

SpecDecode == InitDecode /\ [][NextDecode]_vars

(***************************************************************************)
(* Directories with arbitrary links: up to MaxRecords records, each with   *)
(* any next offset and any child offset: none, the offset of a record      *)
(* (itself included) or an offset at which no record lies.                 *)
(***************************************************************************)
MaxRecords == 2

\* The records up to the k-th are SERIES records, the others IMAGE records.
LinkType(i, k) == IF i <= k THEN "SERIES" ELSE "IMAGE"

\* The offsets a link of a directory of n records may hold.
LinkOffsets(n) == {0} \cup { ByteOffsetOf(i) : i \in 1..(n + 1) }

\* The directory of n records with the next and child offsets links[i].
LinkedArray(n, links, k, root) ==
  [items |-> [i \in 1..n |->
                Item(ByteOffsetOf(i), links[i][1], links[i][2], LinkType(i, k),
                     <<i>>, <<i>>)],
   root |-> root]

\* ProcessDirectoryFile is called for a DICOMDIR with such a directory.
InitLinks ==
  /\ Patients = <<>>
  /\ Studies = <<>>
  /\ Series = <<>>
  /\ lastAdd = NoAdd
  /\ calls = 0
  /\ anyRejected = FALSE
  /\ pc = "decode"
  /\ Query = FALSE
  /\ FindLevel = "SERIES"
  /\ RequirePixelData = TRUE
  /\ profile = "links"
  /\ ErrorCode = 0
  /\ Progress = 0
  /\ reports = <<>>
  /\ earlier = NoRun
  /\ AbortExecute = FALSE
  /\ abortSeen = FALSE
  /\ numberOfStrings = 0
  /\ input = <<>>
  /\ sortedFiles = <<>>
  /\ \E n \in 0..MaxRecords :
       \E links \in [1..n -> LinkOffsets(n) \X LinkOffsets(n)] :
         \E k \in 0..n, root \in LinkOffsets(n) :
           dicomdir = LinkedArray(n, links, k, root)
  /\ dec = DecoderStart(dicomdir, 0, 0)
  /\ candidates = <<>>
  /\ DirectoryName = NullName
  /\ InputFileNames = NullNames
  /\ ScanDepth = 1
  /\ FollowSymlinks = TRUE
  /\ Visited = <<>>
  /\ walk = <<>>

SpecLinks == InitLinks /\ [][NextDecode]_vars

(***************************************************************************)
(* The driver: Update, Execute and ProcessDirectory.                       *)
(*                                                                         *)
(* The file system is a map from path to node.  A node is                  *)
(* [kind, real, symlink, loads, matches, index, entries]:                  *)
(*   kind    "dir", "file", "hidden" (the name starts with '.'),           *)
(*           "DICOMDIR" (the file of that name) or "missing"; a symbolic   *)
(*           link has the kind of what it points to;                       *)
(*   real    GetRealPath of the path;                                      *)
(*   loads   vtksys::Directory::Load succeeds;                             *)
(*   matches the file pattern is unset or PatternMatches accepts the path; *)
(*   index   of a directory: "none" (no DICOMDIR in it), "bad" (the        *)
(*           parser fails on it) or "good";                                *)
(*   entries the directory listing, as paths.                              *)
(* Below a link to a directory the paths are written from the directory   *)
(* the link points to ("ringb/y.dcm" for "ringa/tob/y.dcm"), which keeps   *)
(* the paths of a cycle of links finitely many.                            *)
(* The call stack is walk: the frame of Execute below the frames of the    *)
(* nested ProcessDirectory calls, each [fn, dirname, depth, i, phase].     *)
(***************************************************************************)
Dir(real, loads, index, entries) ==
  [kind |-> "dir", real |-> real, symlink |-> FALSE, loads |-> loads,
   matches |-> FALSE, index |-> index, entries |-> entries]

File(kind, real, symlink, matches) ==
  [kind |-> kind, real |-> real, symlink |-> symlink, loads |-> FALSE,
   matches |-> matches, index |-> "none", entries |-> <<>>]

Missing == File("missing", "", FALSE, FALSE)

Disk ==
     ("plain" :> Dir("plain", TRUE, "none",
                     <<"plain/a.dcm", "plain/sub", "plain/.hidden",
                       "plain/notes.txt", "plain/b.dcm">>))
  @@ ("plain/a.dcm" :> File("file", "plain/a.dcm", FALSE, TRUE))
  @@ ("plain/b.dcm" :> File("file", "plain/b.dcm", FALSE, TRUE))
  @@ ("plain/.hidden" :> File("hidden", "plain/.hidden", FALSE, TRUE))
  @@ ("plain/notes.txt" :> File("file", "plain/notes.txt", FALSE, FALSE))
  @@ ("plain/sub" :> Dir("plain/sub", TRUE, "none",
                         <<"plain/sub/c.dcm", "plain/sub/deep">>))
  @@ ("plain/sub/c.dcm" :> File("file", "plain/sub/c.dcm", FALSE, TRUE))
  @@ ("plain/sub/deep" :> Dir("plain/sub/deep", TRUE, "none",
                              <<"plain/sub/deep/d.dcm">>))
  @@ ("plain/sub/deep/d.dcm" :> File("file", "plain/sub/deep/d.dcm", FALSE, TRUE))
  @@ ("indexed" :> Dir("indexed", TRUE, "good",
                       <<"indexed/DICOMDIR", "indexed/a.dcm">>))
  @@ ("indexed/DICOMDIR" :> File("DICOMDIR", "indexed/DICOMDIR", FALSE, TRUE))
  @@ ("indexed/a.dcm" :> File("file", "indexed/a.dcm", FALSE, TRUE))
  @@ ("badindex" :> Dir("badindex", TRUE, "bad",
                        <<"badindex/DICOMDIR", "badindex/a.dcm">>))
  @@ ("badindex/DICOMDIR" :> File("DICOMDIR", "badindex/DICOMDIR", FALSE, TRUE))
  @@ ("badindex/a.dcm" :> File("file", "badindex/a.dcm", FALSE, TRUE))
  @@ ("links" :> Dir("links", TRUE, "none",
                     <<"links/loop", "links/a.dcm", "links/alias.dcm">>))
  @@ ("links/loop" :> [Dir("links", TRUE, "none",
                           <<"links/loop", "links/a.dcm", "links/alias.dcm">>)
                       EXCEPT !.symlink = TRUE])
  @@ ("links/a.dcm" :> File("file", "links/a.dcm", FALSE, TRUE))
  @@ ("links/alias.dcm" :> File("file", "links/a.dcm", TRUE, TRUE))
  @@ ("ringa" :> Dir("ringa", TRUE, "none", <<"ringa/x.dcm", "ringa/tob">>))
  @@ ("ringa/x.dcm" :> File("file", "ringa/x.dcm", FALSE, TRUE))
  @@ ("ringa/tob" :> [Dir("ringb", TRUE, "none", <<"ringb/y.dcm", "ringb/toa">>)
                      EXCEPT !.symlink = TRUE])
  @@ ("ringb/y.dcm" :> File("file", "ringb/y.dcm", FALSE, TRUE))
  @@ ("ringb/toa" :> [Dir("ringa", TRUE, "none", <<"ringa/x.dcm", "ringa/tob">>)
                      EXCEPT !.symlink = TRUE])
  @@ ("nested" :> Dir("nested", TRUE, "none",
                      <<"nested/badindex", "nested/indexed">>))
  @@ ("nested/badindex" :> Dir("nested/badindex", TRUE, "bad",
                               <<"nested/badindex/DICOMDIR",
                                 "nested/badindex/a.dcm">>))
  @@ ("nested/badindex/DICOMDIR" :>
        File("DICOMDIR", "nested/badindex/DICOMDIR", FALSE, TRUE))
  @@ ("nested/badindex/a.dcm" :>
        File("file", "nested/badindex/a.dcm", FALSE, TRUE))
  @@ ("nested/indexed" :> Dir("nested/indexed", TRUE, "good",
                              <<"nested/indexed/DICOMDIR",
                                "nested/indexed/a.dcm">>))
  @@ ("nested/indexed/DICOMDIR" :>
        File("DICOMDIR", "nested/indexed/DICOMDIR", FALSE, TRUE))
  @@ ("nested/indexed/a.dcm" :>
        File("file", "nested/indexed/a.dcm", FALSE, TRUE))
  @@ ("unsorted" :> Dir("unsorted", TRUE, "none", <<"unsorted/b", "unsorted/a">>))
  @@ ("unsorted/b" :> Dir("unsorted/b", TRUE, "none", <<"unsorted/b/b.dcm">>))
  @@ ("unsorted/b/b.dcm" :> File("file", "unsorted/b/b.dcm", FALSE, TRUE))
  @@ ("unsorted/a" :> Dir("unsorted/a", TRUE, "none", <<"unsorted/a/a.dcm">>))
  @@ ("unsorted/a/a.dcm" :> File("file", "unsorted/a/a.dcm", FALSE, TRUE))
  @@ ("locked" :> Dir("locked", FALSE, "none", <<>>))
  @@ ("missing" :> Missing)

\* The DICOMDIR of the directory "indexed".
IndexOfDisk == WellFormedTree(1, 2, 1, 1, "reverse")

\* vtkErrorCode::FileNotFoundError and CannotOpenFileError.
FileNotFoundError == 20001

CannotOpenFileError == 20002

Names(values) == [null |-> FALSE, values |-> values]

Frame(fn, dirname, depth, i, phase) ==
  [fn |-> fn, dirname |-> dirname, depth |-> depth, i |-> i, phase |-> phase]

Top == walk[Len(walk)]

Pop(stack) == SubSeq(stack, 1, Len(stack) - 1)

\* The scan depths a cycle of links is walked with.
MaxScanDepth == 3

\* The settings a run is made with:
\* <<DirectoryName, InputFileNames, ScanDepth, FollowSymlinks, Query>>.
RunConfigs ==
       { <<"plain", NullNames, d, TRUE, FALSE>> : d \in 0..MaxScanDepth }
  \cup { <<NullName, Names(<<"plain/sub", "plain/notes.txt", "plain/a.dcm", "plain">>),
           2, TRUE, FALSE>> }
  \cup { <<"indexed", NullNames, d, TRUE, q>> : d \in {0, 1}, q \in BOOLEAN }
  \cup { <<"badindex", NullNames, d, TRUE, FALSE>> : d \in {0, 1} }
  \cup { <<"nested", NullNames, 2, TRUE, FALSE>>,
         <<"unsorted", NullNames, 2, TRUE, FALSE>>,
         <<NullName, Names(<<"indexed">>), 1, TRUE, FALSE>> }
  \cup { <<"links", NullNames, 2, fl, FALSE>> : fl \in BOOLEAN }
  \cup { <<"ringa", NullNames, d, fl, FALSE>> : d \in 0..MaxScanDepth, fl \in BOOLEAN }
  \cup { <<n, NullNames, 1, TRUE, FALSE>> :
           n \in {"locked", "missing", "plain/a.dcm", NullName} }

\* The reader after construction and after the setters have been called.
InitRun ==
  /\ Patients = <<>>
  /\ Studies = <<>>
  /\ Series = <<>>
  /\ lastAdd = NoAdd
  /\ calls = 0
  /\ anyRejected = FALSE
  /\ pc = "idle"
  /\ FindLevel = "SERIES"
  /\ RequirePixelData = TRUE
  /\ profile = "run"
  /\ ErrorCode = 0
  /\ Progress = 0
  /\ reports = <<>>
  /\ earlier = NoRun
  /\ AbortExecute = FALSE
  /\ abortSeen = FALSE
  /\ numberOfStrings = 0
  /\ input = <<>>
  /\ sortedFiles = <<>>
  /\ dicomdir = NoDirectory
  /\ dec = NoDecoder
  /\ candidates = <<>>
  /\ Visited = <<>>
  /\ walk = <<>>
  /\ \E c \in RunConfigs :
       /\ DirectoryName = c[1]
       /\ InputFileNames = c[2]
       /\ ScanDepth = c[3]
       /\ FollowSymlinks = c[4]
       /\ Query = c[5]

\* Execute that takes a name that is not a directory for a missing one.
ExecuteStartFileAsMissing ==
  LET exec == Frame("Execute", "", 0, 1, "")
  IN
  IF ~InputFileNames.null
  THEN [ErrorCode |-> 0, walk |-> <<exec>>, pc |-> "run"]
  ELSE IF DirectoryName = NullName
  THEN [ErrorCode |-> 0, walk |-> <<>>, pc |-> "done"]
  ELSE IF Disk[DirectoryName].kind # "dir"
  THEN [ErrorCode |-> FileNotFoundError, walk |-> <<>>, pc |-> "done"]
  ELSE [ErrorCode |-> 0,
        walk |-> <<exec, Frame("ProcessDirectory", DirectoryName, ScanDepth, 1, "enter")>>,
        pc |-> "run"]

\* Lines 1078-1116 of Execute: what the run starts with.
\* Gives [ErrorCode, walk, pc].
ExecuteStart ==
  LET exec == Frame("Execute", "", 0, 1, "")
  IN
  IF ~InputFileNames.null
  THEN [ErrorCode |-> 0, walk |-> <<exec>>, pc |-> "run"]
  ELSE IF DirectoryName = NullName
  THEN [ErrorCode |-> 0, walk |-> <<>>, pc |-> "done"]
  ELSE IF Disk[DirectoryName].kind = "missing"
  THEN [ErrorCode |-> FileNotFoundError, walk |-> <<>>, pc |-> "done"]
  ELSE IF Disk[DirectoryName].kind # "dir"
  THEN [ErrorCode |-> CannotOpenFileError, walk |-> <<>>, pc |-> "done"]
  ELSE [ErrorCode |-> 0,
        walk |-> <<exec, Frame("ProcessDirectory", DirectoryName, ScanDepth, 1, "enter")>>,
        pc |-> "run"]

\* Execute that keeps what the run before it left.
ExecuteKeep ==
  [Patients |-> Patients, Studies |-> Studies, Series |-> Series,
   Visited |-> Visited, ErrorCode |-> ErrorCode]

\* Lines 1066-1073 of Execute: the output, the visited set and the error
\* code at the start of a run.
ExecuteClear ==
  [Patients |-> <<>>, Studies |-> <<>>, Series |-> <<>>,
   Visited |-> <<>>, ErrorCode |-> 0]

\* Update (the reader has been modified since the last update: MTime is
\* later than UpdateTime) and Execute up to its first call.  The list of
\* candidate files and the locals of SortFiles and ProcessDirectoryFile are
\* created anew in each run.
UpdateCall ==
  /\ pc = "idle"
  /\ AbortExecute' = FALSE
  /\ Patients' = ExecuteClear.Patients
  /\ Studies' = ExecuteClear.Studies
  /\ Series' = ExecuteClear.Series
  /\ Visited' = ExecuteClear.Visited
  /\ ErrorCode' = IF ExecuteStart.ErrorCode # 0
                  THEN ExecuteStart.ErrorCode ELSE ExecuteClear.ErrorCode
  /\ walk' = ExecuteStart.walk
  /\ pc' = ExecuteStart.pc
  /\ reports' = <<>>
  /\ numberOfStrings' = 0
  /\ input' = <<>>
  /\ sortedFiles' = <<>>
  /\ dicomdir' = NoDirectory
  /\ dec' = NoDecoder
  /\ candidates' = <<>>
  /\ UNCHANGED <<lastAdd, calls, anyRejected, cfgVars, Progress, abortSeen,
                 inVars, earlier>>

\* The reader is marked modified after a run (vtkObject's Modified(), or a
\* setter), with the configuration and the directory as they were: the
\* next Update executes again.  One earlier run is remembered.
Modified ==
  /\ pc = "done"
  /\ ~earlier.ran
  /\ earlier' = [ran |-> TRUE, aborted |-> abortSeen, Patients |-> Patients,
                 Studies |-> Studies, Series |-> Series, ErrorCode |-> ErrorCode,
                 candidates |-> candidates, input |-> input]
  /\ pc' = "idle"
  /\ abortSeen' = FALSE
  /\ lastAdd' = NoAdd
  /\ calls' = 0
  /\ anyRejected' = FALSE
  /\ UNCHANGED <<storeVars, cfgVars, ErrorCode, Progress, AbortExecute, reports,
                 sortVars, decVars, inVars, walkVars>>

\* Lines 1080-1093: Execute takes the next of the input file names.
ExecuteNextName ==
  /\ pc = "run"
  /\ Top.fn = "Execute"
  /\ ~InputFileNames.null
  /\ Top.i <= Len(InputFileNames.values)
  /\ LET fname == InputFileNames.values[Top.i]
         next == [Top EXCEPT !.i = @ + 1]
     IN /\ walk' = IF Disk[fname].kind = "dir"
                   THEN <<next, Frame("ProcessDirectory", fname, ScanDepth, 1, "enter")>>
                   ELSE <<next>>
        /\ candidates' = IF Disk[fname].kind # "dir" /\ Disk[fname].matches
                         THEN Append(candidates, fname) ELSE candidates
  /\ UNCHANGED <<storeVars, lastAdd, calls, anyRejected, pc, cfgVars, runVars,
                 sortVars, dicomdir, dec, inVars, earlier, Visited>>

\* A checkpoint: the progress event is sent unless the flag is set already
\* (cb: its handler sets the flag), then the flag is read.
\* Gives [Progress, AbortExecute].
Checkpoint(cb) ==
  [Progress |-> IF AbortExecute THEN Progress ELSE 0,
   AbortExecute |-> AbortExecute \/ cb]

\* Execute without its check for abort after the walk.
ExecuteAfterWalkUnchecked(abort, n) == IF n > 0 THEN "sort" ELSE "done"

\* Lines 1118-1131: where Execute goes after the walk, with n files listed.
ExecuteAfterWalk(abort, n) ==
  IF abort THEN "done" ELSE IF n > 0 THEN "sort" ELSE "done"

\* Lines 1117-1131: the walk has returned to Execute.
ExecuteCheckpoint ==
  /\ pc = "run"
  /\ Top.fn = "Execute"
  /\ InputFileNames.null \/ Top.i > Len(InputFileNames.values)
  /\ \E cb \in BOOLEAN :
       LET c == Checkpoint(cb)
           to == ExecuteAfterWalk(c.AbortExecute, Len(candidates))
       IN /\ Progress' = c.Progress
          /\ reports' = IF AbortExecute THEN reports ELSE Append(reports, c.Progress)
          /\ AbortExecute' = c.AbortExecute
          /\ abortSeen' = (abortSeen \/ c.AbortExecute)
          /\ pc' = to
          /\ numberOfStrings' = IF to = "sort" THEN Len(candidates) ELSE numberOfStrings
  /\ UNCHANGED <<storeVars, lastAdd, calls, anyRejected, cfgVars, ErrorCode,
                 input, sortedFiles, decVars, inVars, earlier, walkVars>>

\* The real paths of the directories of the disk, in the order of
\* std::string's operator<.
PathOrder ==
  <<"badindex", "indexed", "links", "locked", "nested", "nested/badindex",
    "nested/indexed", "plain", "plain/sub", "plain/sub/deep", "ringa", "ringb",
    "unsorted", "unsorted/a", "unsorted/b">>

PathRank(realname) ==
  CHOOSE i \in 1..Len(PathOrder) : PathOrder[i] = realname

PathLess(a, b) == PathRank(a) < PathRank(b)

\* std::lower_bound on the sorted list: the position of the first path
\* that is not less than realname, Len + 1 for end().
LowerBound(visited, realname) ==
  LET notLess == { i \in 1..Len(visited) : ~PathLess(visited[i], realname) }
  IN IF notLess = {} THEN Len(visited) + 1
     ELSE CHOOSE i \in notLess : \A j \in notLess : i <= j

\* NotVisited that takes every directory as not visited yet.
NotVisitedAlways(visited, viter, realname) == TRUE

\* The test of line 939: the directory is taken as not visited yet when
\* the lower bound is end() or a path less than realname.
NotVisited(visited, viter, realname) ==
  viter = Len(visited) + 1 \/ PathLess(visited[viter], realname)

\* EnterDirectory that returns with the error whenever the parser fails on
\* the DICOMDIR, whatever the depth.
EnterDirectoryFailAtTop(dirname, depth) ==
  LET node == Disk[dirname]
      probed == InputFileNames.null /\ depth = ScanDepth /\ node.index # "none"
      errorCode == IF probed /\ node.index = "bad" THEN 1 ELSE 0
      viter == LowerBound(Visited, node.real)
      entered == InsertAt(Visited, viter, node.real)
  IN
  IF ~NotVisited(Visited, viter, node.real)
  THEN [Visited |-> Visited, ErrorCode |-> ErrorCode, to |-> "return"]
  ELSE IF probed /\ errorCode # 0
  THEN [Visited |-> entered, ErrorCode |-> errorCode, to |-> "return"]
  ELSE IF probed
  THEN [Visited |-> entered, ErrorCode |-> ErrorCode, to |-> "decode"]
  ELSE IF depth <= 0
  THEN [Visited |-> entered, ErrorCode |-> ErrorCode, to |-> "return"]
  ELSE [Visited |-> entered, ErrorCode |-> ErrorCode, to |-> "check"]

\* EnterDirectory that looks for a DICOMDIR at every depth.
EnterDirectoryProbeAnyDepth(dirname, depth) ==
  LET node == Disk[dirname]
      probed == InputFileNames.null /\ node.index # "none"
      errorCode == IF probed /\ node.index = "bad" THEN 1 ELSE 0
      code == IF probed THEN RelayError(ErrorCode, errorCode) ELSE ErrorCode
      viter == LowerBound(Visited, node.real)
      entered == InsertAt(Visited, viter, node.real)
  IN
  IF ~NotVisited(Visited, viter, node.real)
  THEN [Visited |-> Visited, ErrorCode |-> ErrorCode, to |-> "return"]
  ELSE IF probed /\ errorCode # 0 /\ depth = 0
  THEN [Visited |-> entered, ErrorCode |-> errorCode, to |-> "return"]
  ELSE IF probed /\ errorCode = 0
  THEN [Visited |-> entered, ErrorCode |-> code, to |-> "decode"]
  ELSE IF depth <= 0
  THEN [Visited |-> entered, ErrorCode |-> code, to |-> "return"]
  ELSE [Visited |-> entered, ErrorCode |-> code, to |-> "check"]

\* EnterDirectory without the test of the visited list.
EnterDirectoryRevisiting(dirname, depth) ==
  LET node == Disk[dirname]
      probed == InputFileNames.null /\ depth = ScanDepth /\ node.index # "none"
      errorCode == IF probed /\ node.index = "bad" THEN 1 ELSE 0
      code == IF probed THEN RelayError(ErrorCode, errorCode) ELSE ErrorCode
      viter == LowerBound(Visited, node.real)
      entered == InsertAt(Visited, viter, node.real)
  IN
  IF probed /\ errorCode # 0 /\ depth = 0
  THEN [Visited |-> entered, ErrorCode |-> errorCode, to |-> "return"]
  ELSE IF probed /\ errorCode = 0
  THEN [Visited |-> entered, ErrorCode |-> code, to |-> "decode"]
  ELSE IF depth <= 0
  THEN [Visited |-> entered, ErrorCode |-> code, to |-> "return"]
  ELSE [Visited |-> entered, ErrorCode |-> code, to |-> "check"]

\* Lines 934-1007 of ProcessDirectory, from its entry to the test of the
\* depth.  Gives [Visited, ErrorCode, to] with to: "return", "decode" or
\* "check".
EnterDirectory(dirname, depth) ==
  LET node == Disk[dirname]
      probed == InputFileNames.null /\ depth = ScanDepth /\ node.index # "none"
      errorCode == IF probed /\ node.index = "bad" THEN 1 ELSE 0
      code == IF probed THEN RelayError(ErrorCode, errorCode) ELSE ErrorCode
      viter == LowerBound(Visited, node.real)
      entered == InsertAt(Visited, viter, node.real)
  IN
  IF ~NotVisited(Visited, viter, node.real)
  THEN [Visited |-> Visited, ErrorCode |-> ErrorCode, to |-> "return"]
  ELSE IF probed /\ errorCode # 0 /\ depth = 0
  THEN [Visited |-> entered, ErrorCode |-> errorCode, to |-> "return"]
  ELSE IF probed /\ errorCode = 0
  THEN [Visited |-> entered, ErrorCode |-> code, to |-> "decode"]
  ELSE IF depth <= 0
  THEN [Visited |-> entered, ErrorCode |-> code, to |-> "return"]
  ELSE [Visited |-> entered, ErrorCode |-> code, to |-> "check"]

\* ProcessDirectory is entered.
ProcessDirectoryEnter ==
  /\ pc = "run"
  /\ Top.fn = "ProcessDirectory"
  /\ Top.phase = "enter"
  /\ LET r == EnterDirectory(Top.dirname, Top.depth)
     IN /\ Visited' = r.Visited
        /\ ErrorCode' = r.ErrorCode
        /\ walk' = IF r.to = "return" THEN Pop(walk)
                   ELSE IF r.to = "check"
                   THEN Append(Pop(walk), [Top EXCEPT !.phase = "check"])
                   ELSE walk
        /\ pc' = IF r.to = "decode" THEN "decode" ELSE "run"
        /\ dicomdir' = IF r.to = "decode" THEN IndexOfDisk ELSE dicomdir
        /\ dec' = IF r.to = "decode"
                  THEN DecoderStart(IndexOfDisk, Len(Patients), Len(Studies))
                  ELSE dec
  /\ UNCHANGED <<storeVars, lastAdd, calls, anyRejected, cfgVars, Progress, reports,
                 AbortExecute, abortSeen, sortVars, candidates, inVars, earlier>>

\* Lines 1009-1030: the checkpoint before the directory is listed, and the
\* loading of the listing.  Gives [ErrorCode, to] with to: "return" or "list".
LoadDirectory(dirname, depth, abort) ==
  IF abort
  THEN [ErrorCode |-> ErrorCode, to |-> "return"]
  ELSE IF ~Disk[dirname].loads /\ depth = ScanDepth
  THEN [ErrorCode |-> CannotOpenFileError, to |-> "return"]
  ELSE [ErrorCode |-> ErrorCode, to |-> "list"]

ProcessDirectoryCheckpoint ==
  /\ pc = "run"
  /\ Top.fn = "ProcessDirectory"
  /\ Top.phase = "check"
  /\ \E cb \in BOOLEAN :
       LET c == Checkpoint(cb)
           r == LoadDirectory(Top.dirname, Top.depth, c.AbortExecute)
       IN /\ Progress' = c.Progress
          /\ reports' = IF AbortExecute THEN reports ELSE Append(reports, c.Progress)
          /\ AbortExecute' = c.AbortExecute
          /\ abortSeen' = (abortSeen \/ c.AbortExecute)
          /\ ErrorCode' = r.ErrorCode
          /\ walk' = IF r.to = "return" THEN Pop(walk)
                     ELSE Append(Pop(walk), [Top EXCEPT !.phase = "list"])
  /\ UNCHANGED <<storeVars, lastAdd, calls, anyRejected, pc, cfgVars, sortVars,
                 decVars, inVars, earlier, Visited>>

\* EntryAction that enters a subdirectory with any remaining depth above 0.
EntryActionAboveZero(fileString, depth) ==
  LET node == Disk[fileString] IN
  IF node.kind \in {"hidden", "DICOMDIR"} THEN "skip"
  ELSE IF ~FollowSymlinks /\ node.symlink THEN "skip"
  ELSE IF node.kind = "dir" THEN (IF depth > 0 THEN "enter" ELSE "skip")
  ELSE IF node.matches THEN "file"
  ELSE "skip"

\* Lines 1035-1058: what is done with one entry of the listing.
\* Gives "skip", "enter" or "file".
EntryAction(fileString, depth) ==
  LET node == Disk[fileString] IN
  IF node.kind \in {"hidden", "DICOMDIR"} THEN "skip"
  ELSE IF ~FollowSymlinks /\ node.symlink THEN "skip"
  ELSE IF node.kind = "dir" THEN (IF depth > 1 THEN "enter" ELSE "skip")
  ELSE IF node.matches THEN "file"
  ELSE "skip"

\* One iteration of the loop over the listing, or the return after it.
ProcessDirectoryEntry ==
  /\ pc = "run"
  /\ Top.fn = "ProcessDirectory"
  /\ Top.phase = "list"
  /\ LET entries == IF Disk[Top.dirname].loads THEN Disk[Top.dirname].entries ELSE <<>>
     IN IF Top.i > Len(entries)
        THEN /\ walk' = Pop(walk)
             /\ candidates' = candidates
        ELSE LET fileString == entries[Top.i]
                 act == EntryAction(fileString, Top.depth)
                 next == Append(Pop(walk), [Top EXCEPT !.i = @ + 1])
             IN /\ walk' = IF act = "enter"
                           THEN Append(next, Frame("ProcessDirectory", fileString,
                                                   Top.depth - 1, 1, "enter"))
                           ELSE next
                /\ candidates' = IF act = "file" THEN Append(candidates, fileString)
                                 ELSE candidates
  /\ UNCHANGED <<storeVars, lastAdd, calls, anyRejected, pc, cfgVars, runVars,
                 sortVars, dicomdir, dec, inVars, earlier, Visited>>

NextRun ==
  \/ UpdateCall
  \/ Modified
  \/ ExecuteNextName
  \/ ExecuteCheckpoint
  \/ ProcessDirectoryEnter
  \/ ProcessDirectoryCheckpoint
  \/ ProcessDirectoryEntry
  \/ DecodeNext
  \/ DecodeReturn
  \/ SortNextFile
  \/ SortCheckpoint
  \/ SortFinish
  \/ SetAbortExecute

SpecRun == InitRun /\ [][NextRun]_vars

(***************************************************************************)
(* The setters and Update.  The reader is modified (GetMTime() is later    *)
(* than UpdateTime) exactly while pc is "idle": Modified() makes it so,    *)
(* and the Update that executes ends with UpdateTime.Modified().           *)
(***************************************************************************)
\* this->Modified() in a setter: the next Update executes.  The run before,
\* if there was one, is remembered, but not what the files held: they may
\* have changed since.
Touch ==
  IF pc = "done"
  THEN /\ pc' = "idle"
       /\ earlier' = [ran |-> TRUE, aborted |-> abortSeen, Patients |-> Patients,
                      Studies |-> Studies, Series |-> Series, ErrorCode |-> ErrorCode,
                      candidates |-> <<>>, input |-> <<>>]
       /\ abortSeen' = FALSE
       /\ lastAdd' = NoAdd
       /\ calls' = 0
       /\ anyRejected' = FALSE
  ELSE UNCHANGED <<pc, earlier, abortSeen, lastAdd, calls, anyRejected>>

\* A setter returns without Modified().
NoTouch == UNCHANGED <<pc, earlier, abortSeen, lastAdd, calls, anyRejected>>

\* The caller may call a setter before a run and after one.
SetterCallable == pc \in {"idle", "done"} /\ ~earlier.ran

\* Lines 195-213.
SetDirectoryName ==
  /\ SetterCallable
  /\ \E name \in {"plain", "indexed", NullName} :
       /\ DirectoryName' = name
       /\ IF name = DirectoryName THEN NoTouch ELSE Touch
  /\ UNCHANGED <<storeVars, cfgVars, ErrorCode, Progress, AbortExecute, reports,
                 sortVars, decVars, InputFileNames, ScanDepth, FollowSymlinks, walkVars>>

\* Lines 237-252.  An array is told from another one by what it holds.
SetInputFileNames ==
  /\ SetterCallable
  /\ \E sa \in {NullNames, Names(<<"plain/a.dcm">>)} :
       /\ InputFileNames' = sa
       /\ IF sa # InputFileNames THEN Touch ELSE NoTouch
  /\ UNCHANGED <<storeVars, cfgVars, ErrorCode, Progress, AbortExecute, reports,
                 sortVars, decVars, DirectoryName, ScanDepth, FollowSymlinks, walkVars>>

\* Lines 270-285, with the level after it has been clamped to SERIES..IMAGE.
SetFindLevel ==
  /\ SetterCallable
  /\ \E level \in {"SERIES", "IMAGE"} :
       /\ FindLevel' = level
       /\ IF level # FindLevel THEN Touch ELSE NoTouch
  /\ UNCHANGED <<storeVars, Query, RequirePixelData, profile, ErrorCode, Progress,
                 AbortExecute, reports, sortVars, decVars, inVars, walkVars>>

\* Lines 255-267: the query is replaced by a copy of the item, by none when
\* the item is empty.  Modified() is not called.
SetFindQuery ==
  /\ SetterCallable
  /\ \E isEmpty \in BOOLEAN : Query' = ~isEmpty
  /\ NoTouch
  /\ UNCHANGED <<storeVars, FindLevel, RequirePixelData, profile, ErrorCode, Progress,
                 AbortExecute, reports, sortVars, decVars, inVars, walkVars>>

\* Lines 1135-1144: Update of a reader that is not modified.
UpdateUnmodified ==
  /\ pc = "done"
  /\ AbortExecute' = FALSE
  /\ UNCHANGED <<storeVars, lastAdd, calls, anyRejected, pc, cfgVars, ErrorCode,
                 Progress, abortSeen, reports, sortVars, decVars, inVars, earlier,
                 walkVars>>

\* The reader after construction.  The constructor (lines 125-140) gives
\* FindLevel no value: it holds any level.
InitSetters ==
  /\ Patients = <<>>
  /\ Studies = <<>>
  /\ Series = <<>>
  /\ lastAdd = NoAdd
  /\ calls = 0
  /\ anyRejected = FALSE
  /\ pc = "idle"
  /\ FindLevel \in {"SERIES", "IMAGE"}
  /\ RequirePixelData = TRUE
  /\ profile = "run"
  /\ ErrorCode = 0
  /\ Progress = 0
  /\ reports = <<>>
  /\ earlier = NoRun
  /\ AbortExecute = FALSE
  /\ abortSeen = FALSE
  /\ numberOfStrings = 0
  /\ input = <<>>
  /\ sortedFiles = <<>>
  /\ dicomdir = NoDirectory
  /\ dec = NoDecoder
  /\ candidates = <<>>
  /\ Visited = <<>>
  /\ walk = <<>>
  /\ DirectoryName = NullName
  /\ InputFileNames = NullNames
  /\ ScanDepth = 1
  /\ FollowSymlinks = TRUE
  /\ Query = FALSE

NextSetters ==
  \/ SetDirectoryName
  \/ SetInputFileNames
  \/ SetFindLevel
  \/ SetFindQuery
  \/ UpdateUnmodified
  \/ UpdateCall
  \/ ExecuteNextName
  \/ ExecuteCheckpoint
  \/ ProcessDirectoryEnter
  \/ ProcessDirectoryCheckpoint
  \/ ProcessDirectoryEntry
  \/ DecodeNext
  \/ DecodeReturn
  \/ SortNextFile
  \/ SortCheckpoint
  \/ SortFinish
  \/ SetAbortExecute

SpecSetters == InitSetters /\ [][NextSetters]_vars

\* The walk alone: a run from Update to the end of Execute's walk, on the
\* settings with which no DICOMDIR is decoded.
InitWalk == InitRun /\ ~(InputFileNames.null /\ DirectoryName = "indexed")

\* The steps of the walk: sequential code, which goes on until it returns.
WalkStep ==
  \/ ExecuteNextName
  \/ ExecuteCheckpoint
  \/ ProcessDirectoryEnter
  \/ ProcessDirectoryCheckpoint
  \/ ProcessDirectoryEntry

\* Update and SetAbortExecute are the caller's steps.
NextWalk == UpdateCall \/ WalkStep \/ SetAbortExecute

SpecWalk == InitWalk /\ [][NextWalk]_vars /\ WF_vars(WalkStep)

(***************************************************************************)
(* Claims about the decoder.                                               *)
(***************************************************************************)
\* C6: directly decoding a well-formed tree with P patients, S studies per
\* patient, N series per study and F files per series yields P
\* PatientEntries, P*S StudyEntries and P*S*N SeriesEntries with F files
\* each, for every physical order of the records.
C6_WellFormedTreeCounts ==
  (pc = "done" /\ profile = "dicomdir" /\ ~Query) =>
    LET sh == dicomdir.shape IN
    /\ Len(Patients) = sh.P
    /\ Len(Studies) = sh.P * sh.S
    /\ Len(Series) = sh.P * sh.S * sh.N
    /\ \A k \in 1..Len(Series) : Len(Series[k].Files) = sh.F

\* Two patients with two studies of two series of two files, laid out in
\* another order than document order, have been decoded.
C6_Witness ==
  /\ pc = "done" /\ profile = "dicomdir" /\ ~Query
  /\ dicomdir.shape.order = "stride"
  /\ dicomdir.shape.P = 2 /\ dicomdir.shape.S = 2
  /\ dicomdir.shape.N = 2 /\ dicomdir.shape.F = 2
  /\ Len(Series) = 8

(***************************************************************************)
(* Claims about the index store.                                           *)
(***************************************************************************)
Rejected == lastAdd.result \in {"study", "patient"}

\* C1: a rejected AddSeriesFileNames call, rejected for its study index or
\* for its patient index, leaves the Patient, Study and Series tables
\* exactly as they were before the call.
C1_RejectedCallLeavesStoreUnchanged ==
  Rejected => Store = lastAdd.before

\* C2: AddSeriesFileNames appends no SeriesEntry (is rejected) exactly when
\* the study index is neither the study count nor that count minus one, or
\* the patient index is neither the patient count nor that count minus one;
\* in every other case it appends exactly one SeriesEntry.
C2_RejectedIffIndexOutOfStep ==
  lastAdd.result # "none" =>
    LET studyOk == lastAdd.study \in {lastAdd.n, lastAdd.n - 1}
        patientOk == lastAdd.patient \in {lastAdd.m, lastAdd.m - 1}
    IN /\ Rejected <=> ~(studyOk /\ patientOk)
       /\ Rejected => Series = lastAdd.before.Series
       /\ ~Rejected => Len(Series) = Len(lastAdd.before.Series) + 1

C2_Witness ==
  /\ lastAdd.result = "patient"
  /\ lastAdd.study = lastAdd.n - 1
  /\ lastAdd.patient = lastAdd.m + 1
  /\ Len(Series) >= 1

\* C3: after any sequence of accepted calls from an empty store, every
\* StudyEntry has FirstSeries <= LastSeries, study 0 starts at series 0 and
\* each later study starts right after the previous study's LastSeries.
RangesContiguous ==
  /\ \A i \in 1..Len(Studies) : Studies[i].FirstSeries <= Studies[i].LastSeries
  /\ Len(Studies) >= 1 => Studies[1].FirstSeries = 0
  /\ \A i \in 2..Len(Studies) :
       Studies[i].FirstSeries = Studies[i - 1].LastSeries + 1

C3_AcceptedCallsKeepRangesContiguous ==
  ~anyRejected => RangesContiguous

C3_Witness ==
  /\ ~anyRejected
  /\ Len(Studies) >= 2
  /\ Studies[1].FirstSeries < Studies[1].LastSeries
  /\ lastAdd.result = "ok"

Accepted == lastAdd.result = "ok"

Elements(list) == { list[i] : i \in 1..Len(list) }

NoDuplicate(list) ==
  \A a \in 1..Len(list), b \in 1..Len(list) : a # b => list[a] # list[b]

\* C16: an accepted call with a new patient index appends a PatientEntry
\* whose study list is the one study index of the call; with a continuing
\* patient index it appends the study index to the last patient's list
\* unless it is there already; so no study list has a duplicate and every
\* listed index is the index of a StudyEntry.
C16_PatientStudyLists ==
  /\ \A p \in 1..Len(Patients) :
       /\ NoDuplicate(Patients[p].Studies)
       /\ Elements(Patients[p].Studies) \subseteq 0..(Len(Studies) - 1)
  /\ Accepted =>
       LET before == lastAdd.before.Patients
           m == lastAdd.m
       IN IF lastAdd.patient = m
          THEN /\ Len(Patients) = m + 1
               /\ Patients[m + 1].Studies = <<lastAdd.study>>
          ELSE /\ Len(Patients) = m
               /\ Patients[m].Studies =
                    IF lastAdd.study \in Elements(before[m].Studies)
                    THEN before[m].Studies
                    ELSE Append(before[m].Studies, lastAdd.study)

\* A continuing patient with two studies was given its second study again.
C16_Witness ==
  /\ Accepted
  /\ lastAdd.patient = lastAdd.m - 1
  /\ lastAdd.study = lastAdd.n - 1
  /\ Patients[lastAdd.m].Studies = lastAdd.before.Patients[lastAdd.m].Studies
  /\ Len(Patients[lastAdd.m].Studies) = 2

\* C17: an accepted call with the study index equal to the study count
\* appends a StudyEntry whose FirstSeries and LastSeries are the series
\* count before the call; with the study index equal to the count minus one
\* it appends no StudyEntry and sets the last StudyEntry's LastSeries to the
\* index of the series the call appends.
C17_StudyRangeOfAcceptedCall ==
  Accepted =>
    LET n == lastAdd.n IN
    IF lastAdd.study = n
    THEN /\ Len(Studies) = n + 1
         /\ Studies[n + 1].FirstSeries = lastAdd.series
         /\ Studies[n + 1].LastSeries = lastAdd.series
    ELSE /\ Len(Studies) = n
         /\ Studies[n].LastSeries = Len(Series) - 1
         /\ Studies[n].FirstSeries = lastAdd.before.Studies[n].FirstSeries

\* A continuing study had its range extended.
C17_Witness ==
  /\ Accepted
  /\ lastAdd.study = lastAdd.n - 1
  /\ Studies[lastAdd.n].FirstSeries < Studies[lastAdd.n].LastSeries
  /\ Studies[lastAdd.n].LastSeries = lastAdd.series

\* C18: a call never shortens a table nor changes an entry other than the
\* most recent study and patient; an accepted call appends exactly one
\* SeriesEntry, leaves every existing SeriesEntry as it is, changes of the
\* existing StudyEntries only the LastSeries of the most recent one and of
\* the existing PatientEntries only the study list of the most recent one.
C18_TablesOnlyGrow ==
  lastAdd.result # "none" =>
    LET b == lastAdd.before IN
    /\ Len(Patients) >= Len(b.Patients)
    /\ Len(Studies) >= Len(b.Studies)
    /\ Len(Series) >= Len(b.Series)
    /\ \A k \in 1..Len(b.Series) : Series[k] = b.Series[k]
    /\ \A i \in 1..Len(b.Studies) :
         IF i < Len(b.Studies) THEN Studies[i] = b.Studies[i]
         ELSE Studies[i] = [b.Studies[i] EXCEPT !.LastSeries = Studies[i].LastSeries]
    /\ \A p \in 1..Len(b.Patients) :
         IF p < Len(b.Patients) THEN Patients[p] = b.Patients[p]
         ELSE Patients[p] = [b.Patients[p] EXCEPT !.Studies = Patients[p].Studies]
    /\ Accepted => Len(Series) = Len(b.Series) + 1

\* An accepted call continued the last study of the last patient.
C18_Witness ==
  /\ Accepted
  /\ lastAdd.patient = lastAdd.m - 1
  /\ lastAdd.study = lastAdd.n - 1
  /\ Len(Series) >= 3
  /\ Len(Patients) >= 2

(***************************************************************************)
(* Claims about grouping and sorting (SortFiles).                          *)
(***************************************************************************)
Completed == pc = "done" /\ ~abortSeen

\* The files of the input that SortFiles puts into a group whatever came
\* before them: DICOM files that parse without error and have pixel data.
Decodable(f) == f.isDICOM /\ f.pixelDataFound /\ f.errorCode = 0

SeriesHolding(name) ==
  { k \in 1..Len(Series) : \E i \in 1..Len(Series[k].Files) : Series[k].Files[i] = name }

SameSeriesKey(f, g) ==
  /\ f.PatientID = g.PatientID /\ f.PatientID # NoValue
  /\ f.StudyUID = g.StudyUID /\ f.StudyUID # NoValue
  /\ f.SeriesUID = g.SeriesUID /\ f.SeriesUID # NoValue

\* C4: when no query is set, all decodable files with the same patient ID,
\* the same study UID and the same series UID (all present) end up in
\* exactly one SeriesEntry, whatever their other attributes and whatever
\* other files are in the list.
C4_SameKeysOneSeriesEntry ==
  (Completed /\ ~Query) =>
    \A i \in 1..Len(input), j \in 1..Len(input) :
      (Decodable(input[i]) /\ Decodable(input[j]) /\ SameSeriesKey(input[i], input[j]))
        => /\ Cardinality(SeriesHolding(i)) = 1
           /\ SeriesHolding(i) = SeriesHolding(j)

InstanceOf(name) == AsUnsignedInt(input[name].InstanceNumber)

\* C5: in every SeriesEntry produced by grouping the files are in ascending
\* instance-number order, files with equal instance numbers keep their
\* order from the input list, and a stored entry is never changed.
SeriesFilesInStableOrder ==
  \A k \in 1..Len(Series) :
    \A a \in 1..Len(Series[k].Files), b \in 1..Len(Series[k].Files) :
      a < b =>
        \/ InstanceOf(Series[k].Files[a]) < InstanceOf(Series[k].Files[b])
        \/ /\ InstanceOf(Series[k].Files[a]) = InstanceOf(Series[k].Files[b])
           /\ Series[k].Files[a] < Series[k].Files[b]

StoredSeriesKept ==
  /\ Len(Series') >= Len(Series)
  /\ \A k \in 1..Len(Series) : Series'[k] = Series[k]

C5_FilesInStableInstanceOrder ==
  []SeriesFilesInStableOrder /\ [][StoredSeriesKept]_vars

\* A series of three files that came as instance 2, 1, 1 (a tie, out of order).
C5_Witness ==
  /\ Completed
  /\ \E k \in 1..Len(Series) :
       /\ Len(Series[k].Files) = 3
       /\ Series[k].Files[3] < Series[k].Files[1]
       /\ InstanceOf(Series[k].Files[1]) = InstanceOf(Series[k].Files[2])

\* C7: files that share a patient ID and compare equal at study level,
\* whether or not they carry a study UID, split over two distinct series
\* UIDs, yield two SeriesEntries under one PatientEntry and one StudyEntry
\* whose range spans both.
TwoSeriesOfOneStudy ==
  /\ Len(input) >= 2
  /\ \A i \in 1..Len(input) :
       /\ Decodable(input[i])
       /\ input[i].PatientID = input[1].PatientID /\ input[i].PatientID # NoValue
       /\ input[i].StudyUID = input[1].StudyUID
       /\ input[i].StudyDate = input[1].StudyDate
       /\ input[i].SeriesUID # NoValue
  /\ Cardinality({ input[i].SeriesUID : i \in 1..Len(input) }) = 2

C7_TwoSeriesOnePatientOneStudy ==
  (Completed /\ ~Query /\ TwoSeriesOfOneStudy) =>
    /\ Len(Series) = 2
    /\ Len(Patients) = 1
    /\ Len(Studies) = 1
    /\ Studies[1].FirstSeries = 0 /\ Studies[1].LastSeries = 1

\* The names of the input files with series UID se.
FilesOfSeries(se) == { i \in 1..Len(input) : input[i].SeriesUID = se }

FileSet(files) == { files[i] : i \in 1..Len(files) }

\* C8: with a query and series-level filtering, a series group is output
\* if and only if at least one of its files matched the query, and an
\* output group keeps all of its files, matching or not.
C8_SeriesLevelKeepsWholeMatchedGroups ==
  (Completed /\ profile = "query" /\ Query /\ FindLevel = "SERIES") =>
    \A se \in { input[i].SeriesUID : i \in 1..Len(input) } :
      IF \E i \in FilesOfSeries(se) : input[i].queryMatched
      THEN /\ Cardinality({ k \in 1..Len(Series) : FileSet(Series[k].Files) = FilesOfSeries(se) }) = 1
           /\ \A k \in 1..Len(Series) :
                FileSet(Series[k].Files) \cap FilesOfSeries(se) # {}
                  => Len(Series[k].Files) = Cardinality(FilesOfSeries(se))
      ELSE \A k \in 1..Len(Series) : FileSet(Series[k].Files) \cap FilesOfSeries(se) = {}

\* Two matching files and one that fails the query, all of one series.
C8_Witness ==
  /\ Completed /\ profile = "query" /\ Query /\ FindLevel = "SERIES"
  /\ Len(input) = 3
  /\ Cardinality({ i \in 1..3 : input[i].queryMatched }) = 2
  /\ \A i \in 1..3 : input[i].SeriesUID = input[1].SeriesUID
  /\ Len(Series) = 1
  /\ Len(Series[1].Files) = 3

\* C9: with a query and image-level filtering, no file that fails the query
\* is in the file list of any SeriesEntry.
C9_ImageLevelExcludesUnmatchedFiles ==
  (Query /\ FindLevel = "IMAGE") =>
    \A k \in 1..Len(Series) : \A a \in 1..Len(Series[k].Files) :
      input[Series[k].Files[a]].queryMatched

\* The first file of a series matched, a later one did not, and the series
\* was output.
C9_Witness ==
  /\ Completed /\ Query /\ FindLevel = "IMAGE"
  /\ Len(input) >= 2
  /\ input[1].queryMatched /\ ~input[2].queryMatched
  /\ input[1].SeriesUID = input[2].SeriesUID
  /\ Len(Series) >= 1

(***************************************************************************)
(* Claims about cancellation.                                              *)
(***************************************************************************)
\* A step at whose checkpoint the flag is found set, or a step after such a
\* checkpoint.
Cancelled == abortSeen \/ abortSeen'

NothingMoreDone == storeVars' = storeVars /\ ErrorCode' = ErrorCode

\* C10: once the cancellation flag has been found set at a checkpoint
\* (before a directory is listed, after the walk, between files in
\* SortFiles), no step of the run appends to the Patient, Study or Series
\* tables, and neither the step that finds the flag set nor a later one
\* changes the error code; a run cancelled in SortFiles has appended none
\* of the groups of that pass.
C10_NothingAppendedAfterCancellation ==
  /\ [][Cancelled => NothingMoreDone]_vars
  /\ []((abortSeen /\ input # <<>>) => Series = <<>>)

\* SortFiles has been cancelled at the checkpoint after a file, with a group
\* of files pending and an error code retained from a file read before.
C10_Witness ==
  /\ abortSeen
  /\ pc = "done"
  /\ profile = "run"
  /\ sortedFiles # <<>>
  /\ ErrorCode # 0
  /\ Series = <<>>

(***************************************************************************)
(* Claims about decode failures.                                           *)
(***************************************************************************)
\* The files read so far on which the parser failed.
Failures == { i \in 1..Len(input) : input[i].isDICOM /\ input[i].errorCode # 0 }

FirstFailure == CHOOSE i \in Failures : \A j \in Failures : i <= j

\* C11: once the parser has failed on a file of the run, the error code of
\* the run is the code of the first failure, whatever failures follow.
C11_FirstFailureCodeRetained ==
  (profile = "errors" /\ Failures # {}) =>
    ErrorCode = input[FirstFailure].errorCode

\* What the file's own parse result and RequirePixelData say: the file is
\* put into a group.
KeptOnOwnResult(f) ==
  f.isDICOM /\ f.errorCode = 0 /\ (f.pixelDataFound \/ ~RequirePixelData)

\* C12: a failure on one file makes only that file be skipped; a file of the
\* list is in a SeriesEntry exactly when its own parse result and the
\* RequirePixelData setting say so, whatever happened to the files before it.
C12_FileKeptOnItsOwnResult ==
  (Completed /\ profile = "errors") =>
    \A i \in 1..Len(input) :
      SeriesHolding(i) # {} <=> KeptOnOwnResult(input[i])

(***************************************************************************)
(* Claims about the index file (DICOMDIR).                                 *)
(***************************************************************************)
\* A run on the directory with the DICOMDIR the parser fails on.
OnBadIndex == DirectoryName = "badindex" /\ InputFileNames.null

\* A run on the directory whose subdirectories hold a DICOMDIR each, one the
\* parser fails on and a good one.
OnNested == DirectoryName = "nested" /\ InputFileNames.null

\* A DICOMDIR below the top directory is not looked at: the walk sets no
\* error code, and the files of the subdirectories are listed.
NestedIndexIgnored ==
  OnNested =>
    /\ dicomdir = NoDirectory
    /\ input = <<>> => ErrorCode = 0
    /\ (pc = "done" /\ ~abortSeen) =>
         candidates = <<"nested/badindex/a.dcm", "nested/indexed/a.dcm">>

\* C13 as stated: when the parser fails on the DICOMDIR of the directory the
\* run starts in, the run ends with the parser's error code and lists no
\* file of the directory, whatever the scan depth; a DICOMDIR deeper down
\* is ignored without an error.
C13_IndexFailureAtTopFailsRun ==
  /\ (OnBadIndex /\ pc # "idle") => candidates = <<>>
  /\ (OnBadIndex /\ pc = "done") => ErrorCode = 1
  /\ NestedIndexIgnored

\* C13, amended: the failure ends the run, with the parser's error code and
\* no file listed, when the scan depth is 0; with a scan depth above 0 the
\* directory is listed as if it had no DICOMDIR; a DICOMDIR deeper down is
\* ignored without an error.
C13_IndexFailureFailsRunAtDepthZero ==
  /\ (OnBadIndex /\ ScanDepth = 0 /\ pc # "idle") => candidates = <<>>
  /\ (OnBadIndex /\ ScanDepth = 0 /\ pc = "done") => ErrorCode = 1 /\ Series = <<>>
  /\ (OnBadIndex /\ ScanDepth > 0 /\ pc = "done" /\ ~abortSeen) =>
       candidates = <<"badindex/a.dcm">>
  /\ NestedIndexIgnored

\* The parser failed on the DICOMDIR, the scan depth is 1, and the file of
\* the directory was listed, read and stored.
C13_Witness ==
  /\ OnBadIndex /\ ScanDepth = 1
  /\ pc = "done" /\ ~abortSeen
  /\ candidates = <<"badindex/a.dcm">>
  /\ Len(Series) = 1

\* The file names the decoder takes from the DICOMDIR of "indexed", in the
\* order of its links.
IndexedNames == <<JoinPath(<<1, 1, 1, 1>>), JoinPath(<<1, 2, 1, 1>>)>>

\* C14: a DICOMDIR is looked at only in the directory the run starts in
\* (the call at the configured scan depth) and only when no list of input
\* file names is set; when it is decoded, the directory is not listed: the
\* candidate files are those the DICOMDIR names (with a query) or none.
C14_IndexOnlyAtTopAndInsteadOfListing ==
  /\ dicomdir # NoDirectory => (DirectoryName = "indexed" /\ InputFileNames.null)
  /\ (DirectoryName = "indexed" /\ InputFileNames.null) =>
       /\ Elements(candidates) \subseteq Elements(IndexedNames)
       /\ pc = "done" => candidates = IF Query THEN IndexedNames ELSE <<>>
  /\ (~InputFileNames.null /\ InputFileNames.values = <<"indexed">>
        /\ pc = "done" /\ ~abortSeen) => candidates = <<"indexed/a.dcm">>
  /\ NestedIndexIgnored

\* The DICOMDIR was decoded into a list of file names for a query, and the
\* files were read and grouped.
C14_Witness ==
  /\ DirectoryName = "indexed" /\ InputFileNames.null /\ Query
  /\ ScanDepth = 1
  /\ pc = "done" /\ ~abortSeen
  /\ candidates = IndexedNames
  /\ Len(input) = 2
  /\ Len(Series) >= 1

(***************************************************************************)
(* Claims about a second run.                                              *)
(***************************************************************************)
\* The step in which Update calls Execute.
ExecuteBegins == pc = "idle" /\ pc' # "idle"

\* The tables, the visited set and the error code are those of a run that
\* has done nothing yet but look at its directory name.
StartsCleared ==
  /\ Patients' = <<>> /\ Studies' = <<>> /\ Series' = <<>>
  /\ Visited' = <<>>
  /\ ErrorCode' \in {0, FileNotFoundError, CannotOpenFileError}

\* Both runs went to their end, and the second one decoded no DICOMDIR.
TwoRunsWithoutIndex ==
  /\ earlier.ran /\ ~earlier.aborted
  /\ pc = "done" /\ ~abortSeen
  /\ dicomdir = NoDirectory

\* C15: a run starts by clearing the three tables, the visited set and the
\* error code; and when a second run with the same configuration over the
\* same unchanged files, without a DICOMDIR, has ended, the Patient, Study
\* and Series tables and the error code are those the first run ended with.
C15_SecondRunSameTables ==
  /\ [][ExecuteBegins => StartsCleared]_vars
  /\ [](TwoRunsWithoutIndex =>
          /\ Patients = earlier.Patients
          /\ Studies = earlier.Studies
          /\ Series = earlier.Series
          /\ ErrorCode = earlier.ErrorCode
          /\ candidates = earlier.candidates)

\* A second run over "plain" and its subdirectory has ended with two
\* series and the error code of a file that failed to parse.
C15_Witness ==
  /\ TwoRunsWithoutIndex
  /\ DirectoryName = "plain" /\ InputFileNames.null /\ ScanDepth = 2
  /\ Len(input) = 3
  /\ Len(Series) = 2
  /\ ErrorCode # 0
  /\ Series = earlier.Series

(***************************************************************************)
(* Claims about the walk.                                                  *)
(***************************************************************************)
\* The walk is going on: Execute has not reached the end of its walk.
Walking == pc \in {"run", "decode"}

\* Execute is past its walk: in SortFiles or returned.
WalkOver == pc \in {"sort", "check", "done"}

\* The step in which a ProcessDirectory call passes its test of the
\* visited list and goes on to list the directory.
GoesOnToList ==
  /\ pc = "run" /\ walk # <<>>
  /\ Top.fn = "ProcessDirectory" /\ Top.phase = "enter"
  /\ Len(walk') = Len(walk)
  /\ walk'[Len(walk)].phase = "check"

\* The deepest the call stack gets: Execute and one ProcessDirectory call
\* for each depth from ScanDepth down to 1.
DeepestStack == IF ScanDepth > 1 THEN ScanDepth + 1 ELSE 2

\* C19: the walk ends, whatever the scan depth and with symbolic links
\* followed around a cycle of links: a walk that has started gets to its
\* end, no directory is listed when its real path was listed before in the
\* run, and the nesting of the calls stays within the scan depth.
C19_WalkOfCycleTerminates ==
  /\ Walking ~> WalkOver
  /\ [][GoesOnToList =>
          /\ Disk[Top.dirname].real \notin Elements(Visited)
          /\ Disk[Top.dirname].real \in Elements(Visited')]_vars
  /\ [](Len(walk) <= DeepestStack)

\* The walk went from "ringa" through the link to "ringb" and met the link
\* back to "ringa", with a scan depth that would have let it go on, and
\* has ended with each directory listed once.
C19_Witness ==
  /\ DirectoryName = "ringa" /\ FollowSymlinks /\ ScanDepth = MaxScanDepth
  /\ WalkOver /\ ~abortSeen
  /\ Visited = <<"ringa", "ringb">>
  /\ candidates = <<"ringa/x.dcm", "ringb/y.dcm">>

(***************************************************************************)
(* Claims about the progress events.                                       *)
(***************************************************************************)
\* C20: the progress values reported in one run, in the order of their
\* events, never decrease, and each lies between 0 and 1 (0 and 100 in
\* whole percent); the value the reader holds is the last one reported.
C20_ProgressNeverDecreases ==
  /\ \A i \in 1..Len(reports) :
       /\ reports[i] \in 0..100
       /\ \A j \in i..Len(reports) : reports[i] <= reports[j]
  /\ reports # <<>> => Progress = reports[Len(reports)]

\* A second run, which starts with the progress of the first run's end,
\* has reported 0 at the checkpoint of each of the two directories and at
\* the one after the walk, and then a value for each of three files.
C20_Witness ==
  /\ earlier.ran /\ ~earlier.aborted
  /\ DirectoryName = "plain" /\ InputFileNames.null /\ ScanDepth = 2
  /\ pc = "done" /\ ~abortSeen
  /\ reports = <<0, 0, 0, 33, 66, 100>>

(***************************************************************************)
(* Claims about the directory name.                                        *)
(***************************************************************************)
\* The run was given the name of nothing on the disk, of a file, of a
\* directory that cannot be listed.
RootMissing == InputFileNames.null /\ DirectoryName = "missing"

RootIsFile == InputFileNames.null /\ DirectoryName = "plain/a.dcm"

RootUnreadable == InputFileNames.null /\ DirectoryName = "locked"

\* Execute has returned without a walk and without SortFiles, and the
\* tables are empty.
NothingWalkedOrGrouped ==
  /\ Visited = <<>> /\ walk = <<>> /\ reports = <<>>
  /\ candidates = <<>> /\ input = <<>>
  /\ Patients = <<>> /\ Studies = <<>> /\ Series = <<>>

\* C21 as stated: a missing root ends the run with the error for "not
\* found", a root that is a file ends it with an error that is neither
\* that one nor the error of a directory that cannot be opened; in both
\* cases nothing is walked or grouped and the tables stay empty.
C21_RootFileHasItsOwnError ==
  /\ (RootMissing /\ pc = "done") =>
       ErrorCode = FileNotFoundError /\ NothingWalkedOrGrouped
  /\ (RootIsFile /\ pc = "done") =>
       /\ ErrorCode \notin {0, FileNotFoundError, CannotOpenFileError}
       /\ NothingWalkedOrGrouped
  /\ (RootUnreadable /\ pc = "done" /\ ~abortSeen) =>
       ErrorCode = CannotOpenFileError

\* C21, amended: a root that is a file ends the run with the same error as
\* a directory that cannot be opened; the rest as stated.
C21_RootFileIsCannotOpen ==
  /\ (RootMissing /\ pc = "done") =>
       ErrorCode = FileNotFoundError /\ NothingWalkedOrGrouped
  /\ (RootIsFile /\ pc = "done") =>
       ErrorCode = CannotOpenFileError /\ NothingWalkedOrGrouped
  /\ (RootUnreadable /\ pc = "done" /\ ~abortSeen) =>
       /\ ErrorCode = CannotOpenFileError
       /\ Visited = <<"locked">> /\ reports = <<0, 0>>
       /\ candidates = <<>> /\ Series = <<>>

\* A second run on the name of a file has ended as the first one did.
C21_Witness ==
  /\ RootIsFile /\ pc = "done" /\ earlier.ran
  /\ ErrorCode = CannotOpenFileError
  /\ earlier.ErrorCode = CannotOpenFileError

(***************************************************************************)
(* Claims about the list of open series groups.                            *)
(***************************************************************************)
\* The keys of a group, as those of a file to compare another group with.
AsFile(g) ==
  [DefaultFile EXCEPT !.PatientName = g.PatientName, !.PatientID = g.PatientID,
                      !.StudyDate = g.StudyDate, !.StudyTime = g.StudyTime,
                      !.StudyUID = g.StudyUID, !.SeriesUID = g.SeriesUID,
                      !.SeriesNumber = g.SeriesNumber]

\* C22: the list of open series groups is in ascending order under the
\* comparison of lines 646-691 after each file: of two groups of the list
\* the earlier one does not compare greater than the later one.
C22_GroupListAscending ==
  \A i \in 1..Len(sortedFiles) : \A j \in i..Len(sortedFiles) :
    CompareGroup(sortedFiles[i], AsFile(sortedFiles[j])) <= 0

\* The step in which the file read last is put into the list.
PutIntoList ==
  /\ pc = "check" /\ pc' = "sort"
  /\ ~SkipForQuery(input[Len(input)])

\* In that step the file is added to group k.
AddedTo(k) ==
  /\ Len(sortedFiles') = Len(sortedFiles)
  /\ sortedFiles'[k].Files = Append(sortedFiles[k].Files, FileInfo(input[Len(input)]))

\* In that step a group is made that holds the file alone.
OwnGroupMade ==
  /\ Len(sortedFiles') = Len(sortedFiles) + 1
  /\ \E k \in 1..Len(sortedFiles') :
       /\ sortedFiles'[k].Files = <<FileInfo(input[Len(input)])>>
       /\ sortedFiles'[k].SeriesUID = input[Len(input)].SeriesUID

\* C23: a file is added to an existing group only if it has a series UID,
\* the group has the same one, and file and group compare equal at patient
\* and study level; a file without series UID gets a group of its own,
\* also when it ties with a group of the list.
C23_JoinNeedsTieAndSeriesUID ==
  [][PutIntoList =>
       /\ \A k \in 1..Len(sortedFiles) :
            AddedTo(k) =>
              /\ input[Len(input)].SeriesUID # NoValue
              /\ input[Len(input)].SeriesUID = sortedFiles[k].SeriesUID
              /\ ComparePatient(sortedFiles[k], input[Len(input)]) = 0
              /\ CompareStudy(sortedFiles[k], input[Len(input)]) = 0
       /\ input[Len(input)].SeriesUID = NoValue => OwnGroupMade
       /\ OwnGroupMade \/ \E k \in 1..Len(sortedFiles) : AddedTo(k)]_vars

\* Two files without series UID and with the same series number have been
\* read: they tie, and each is in a group of its own; a third file with a
\* series UID has joined no group of theirs.
C23_Witness ==
  /\ profile = "series" /\ pc = "sort" /\ Len(input) = 3
  /\ Len(sortedFiles) = 3
  /\ \E i, j \in 1..3 :
       /\ i < j
       /\ sortedFiles[i].SeriesUID = NoValue /\ sortedFiles[j].SeriesUID = NoValue
       /\ CompareGroup(sortedFiles[i], AsFile(sortedFiles[j])) = 0

(***************************************************************************)
(* Claims about the final pass of SortFiles.                               *)
(***************************************************************************)
Survives(g) == g.QueryMatched

\* The groups the final pass does not skip, in the order of the list.
Surviving == SelectSeq(sortedFiles, Survives)

\* Group i of the surviving groups starts a patient, a study, as the claim
\* has it: absent values are values like others.
StartsPatient(i) == i = 1 \/ Surviving[i].PatientID # Surviving[i - 1].PatientID

StartsStudy(i) == StartsPatient(i) \/ Surviving[i].StudyUID # Surviving[i - 1].StudyUID

PatientsUpTo(i) == Cardinality({ k \in 1..i : StartsPatient(k) })

StudiesUpTo(i) == Cardinality({ k \in 1..i : StartsStudy(k) })

\* C24: after the final pass there is one SeriesEntry for each surviving
\* group, in the order of the list; group i is in the study and under the
\* patient counted by the groups up to i that start one, where a group
\* starts a patient when it is the first one or its patient ID differs from
\* the previous group's, and a study when it starts a patient or its study
\* UID differs from the previous group's; absent values that are both
\* absent do not differ.
C24_FinalPassCountsChanges ==
  (Completed /\ Len(input) = numberOfStrings) =>
    /\ Len(Series) = Len(Surviving)
    /\ Len(Patients) = PatientsUpTo(Len(Surviving))
    /\ Len(Studies) = StudiesUpTo(Len(Surviving))
    /\ \A i \in 1..Len(Surviving) :
         /\ Studies[StudiesUpTo(i)].FirstSeries <= i - 1
         /\ Studies[StudiesUpTo(i)].LastSeries >= i - 1
         /\ \E n \in 1..Len(Patients[PatientsUpTo(i)].Studies) :
              Patients[PatientsUpTo(i)].Studies[n] = StudiesUpTo(i) - 1

(***************************************************************************)
(* Claims about the comparison of a file with a group.                     *)
(***************************************************************************)
\* The file that has been read and is about to be compared with the groups
\* of the list.
FileToCompare == input[Len(input)]

Comparing == pc = "check"

IDOf(x) == OrEmpty(x.PatientID)

NameOf(x) == OrEmpty(x.PatientName)

\* C25 as stated: at patient level the ID decides when both IDs are there
\* and differ; when one of them is empty or they are equal, the name
\* decides, so that the same ID with different names compares unequal.
C25_NameDecidesWhenIDsTie ==
  Comparing =>
    \A k \in 1..Len(sortedFiles) :
      LET g == sortedFiles[k]
          f == FileToCompare
      IN IF IDOf(g) # EmptyString /\ IDOf(f) # EmptyString /\ IDOf(g) # IDOf(f)
         THEN ComparePatient(g, f) = strcmp(IDOf(g), IDOf(f))
         ELSE ComparePatient(g, f) = strcmp(NameOf(g), NameOf(f))

\* C25, amended: a file and a group with the same non-empty patient ID
\* compare equal at patient level whatever their names; otherwise (the IDs
\* differ, or both are empty) the names decide when they differ and the IDs
\* when the names are equal.  Two files that differ in the name only, with
\* an ID, are one group.
C25_SameIDIsSamePatient ==
  /\ Comparing =>
       \A k \in 1..Len(sortedFiles) :
         LET g == sortedFiles[k]
             f == FileToCompare
         IN IF IDOf(g) = IDOf(f) /\ IDOf(f) # EmptyString
            THEN ComparePatient(g, f) = 0
            ELSE IF NameOf(g) # NameOf(f)
            THEN ComparePatient(g, f) = strcmp(NameOf(g), NameOf(f))
            ELSE ComparePatient(g, f) = strcmp(IDOf(g), IDOf(f))
  /\ (profile = "patient" /\ pc = "sort" /\ Len(input) = 2
        /\ IDOf(input[1]) = IDOf(input[2]) /\ IDOf(input[1]) # EmptyString) =>
       Len(sortedFiles) = 1 /\ Len(sortedFiles[1].Files) = 2

\* A file is about to be compared with a group that has its patient ID and
\* another patient name.
C25_Witness ==
  /\ Comparing /\ profile = "patient"
  /\ \E k \in 1..Len(sortedFiles) :
       /\ IDOf(sortedFiles[k]) = IDOf(FileToCompare)
       /\ IDOf(FileToCompare) # EmptyString
       /\ NameOf(sortedFiles[k]) # NameOf(FileToCompare)

\* The file that made group g: the first of its files (file names are the
\* positions in the input).
Founder(g) == input[g.Files[1].FileName]

\* The study UIDs of the two files are equal, or one of them is absent.
UIDsAbsentOrTie(h, f) ==
  h.StudyUID = NoValue \/ f.StudyUID = NoValue \/ h.StudyUID = f.StudyUID

\* C26: when a file is compared with a group of its patient and a study
\* UID is absent or the study UIDs tie, the study dates decide when they
\* differ, and for equal dates the study times: the comparison is not 0
\* when the times differ; two files without study UID, with the same date
\* and different times are two groups.
C26_StudyTimeBreaksTies ==
  /\ Comparing =>
       \A k \in 1..Len(sortedFiles) :
         LET g == sortedFiles[k]
             h == Founder(sortedFiles[k])
             f == FileToCompare
         IN (/\ ComparePatient(g, f) = 0
             /\ UIDsAbsentOrTie(h, f)
             /\ h.StudyDate # NoValue /\ f.StudyDate # NoValue) =>
              IF h.StudyDate # f.StudyDate
              THEN CompareStudy(g, f) = strcmp(h.StudyDate, f.StudyDate)
              ELSE h.StudyTime # f.StudyTime => CompareStudy(g, f) # 0
  /\ (/\ profile = "study" /\ pc = "sort" /\ Len(input) = 2
      /\ input[1].StudyUID = NoValue /\ input[2].StudyUID = NoValue
      /\ input[1].StudyDate = input[2].StudyDate /\ input[1].StudyDate # NoValue
      /\ input[1].StudyTime # input[2].StudyTime) =>
       Len(sortedFiles) = 2

(***************************************************************************)
(* C27: the series level of the comparison (lines 681-704).                *)
(***************************************************************************)
\* Two groups are of one patient and one study.
SameStudy(g1, g2) ==
  /\ g1.PatientID = g2.PatientID /\ g1.PatientName = g2.PatientName
  /\ g1.StudyUID = g2.StudyUID /\ g1.StudyDate = g2.StudyDate

\* C27: the groups of one study that have a series UID are in ascending
\* order of series UID in the list, and when a file is compared with a group
\* of its study and both have a series UID, the series UIDs alone decide:
\* the series number is looked at only when a series UID is absent.
C27_SeriesAscendingByUID ==
  /\ \A i \in 1..Len(sortedFiles) : \A j \in i..Len(sortedFiles) :
       LET g1 == sortedFiles[i]  g2 == sortedFiles[j]
       IN (SameStudy(g1, g2) /\ g1.SeriesUID # NoValue /\ g2.SeriesUID # NoValue) =>
            CompareUIDs(g1.SeriesUID, g2.SeriesUID) <= 0
  /\ Comparing => \A k \in 1..Len(sortedFiles) :
       LET g == sortedFiles[k]  f == FileToCompare
       IN (ComparePatient(g, f) = 0 /\ CompareStudy(g, f) = 0 /\ g.SeriesUID # NoValue /\ f.SeriesUID # NoValue) =>
            CompareSeries(g, f) = CompareUIDs(g.SeriesUID, f.SeriesUID)

(***************************************************************************)
(* C28: the decoder's patient and study counters.                          *)
(***************************************************************************)
\* An index file is decoded straight into the tables.
DirectDecoding == pc \in {"decode", "done"} /\ profile \in {"dicomdir", "sparse"} /\ ~Query

\* C28: while an index file is decoded straight into the tables, no
\* AddSeriesFileNames call of the decoder is rejected and the decoder's
\* patient and study counters are never greater than the numbers of
\* patients and studies in the tables, also when a patient, a study or a
\* series of the tree has no descendants.
C28_DecoderIndicesAccepted ==
  DirectDecoding =>
    /\ lastAdd.result \in {"none", "ok"}
    /\ dec.patientIdx <= Len(Patients)
    /\ dec.studyIdx <= Len(Studies)

(***************************************************************************)
(* C29: the decoder on arbitrary links.                                    *)
(***************************************************************************)
\* No record was processed twice.
EachRecordOnce ==
  \A a \in 1..Len(dec.visits) : \A b \in 1..Len(dec.visits) :
    dec.visits[a] = dec.visits[b] => a = b

\* The loop of line 828 has ended.
DecoderReturned == pc = "done"

\* What is left to do: the records not yet processed count twice, the stack
\* entries once.
WorkLeft(d) == 2 * (Len(dicomdir.items) - Len(d.visits)) + Len(d.offsetStack)

\* C29: whatever the next and child offsets of the records are (a record's
\* own offset, a cycle, an offset at which no record lies), the decoder
\* processes no record twice and its loop ends: the work left is never
\* negative and every iteration after which the loop goes on makes it
\* smaller, and when the current offset is 0, where the loop ends, the stack
\* is empty.
C29_DecoderTerminatesOnAnyLinks ==
  /\ [](profile = "links" => EachRecordOnce /\ WorkLeft(dec) >= 0)
  /\ [][(profile = "links" /\ pc = "decode" /\ pc' = "decode") =>
          (WorkLeft(dec') < WorkLeft(dec) \/ (dec'.offset = 0 /\ dec'.offsetStack = <<>>))]_vars
  /\ [](profile = "links" /\ dec.offset = 0 => dec.offsetStack = <<>>)
  /\ [](profile = "links" /\ DecoderReturned => dec.offset = 0 /\ dec.offsetStack = <<>>)

\* A directory of two records, each the child of the other, and the second
\* its own next record, has been decoded: both records were processed.
C29_Witness ==
  /\ profile = "links" /\ DecoderReturned
  /\ Len(dicomdir.items) = 2
  /\ dicomdir.items[1].Child = dicomdir.items[2].ByteOffset
  /\ dicomdir.items[2].Child = dicomdir.items[1].ByteOffset
  /\ dicomdir.items[2].Next = dicomdir.items[2].ByteOffset
  /\ dicomdir.items[1].Next = ByteOffsetOf(3)
  /\ Len(dec.visits) = 2

(***************************************************************************)
(* C30: what the decoder hands over when it leaves a series.               *)
(***************************************************************************)
\* The record the decoder is about to read, <<>> when there is none.
RecordAhead ==
  IF pc = "decode" /\ OffsetToIndex(dicomdir.items, dec.offset) # 0
  THEN dicomdir.items[OffsetToIndex(dicomdir.items, dec.offset)]
  ELSE <<>>

\* The decoder is about to read the last image record of a series, after
\* which it leaves the series.
LeavingSeries ==
  /\ profile \in {"dicomdir", "sparse"} /\ ~Query
  /\ RecordAhead # <<>>
  /\ RecordAhead.Type = "IMAGE" /\ RecordAhead.Next = 0

\* The paths of the image records of the series labelled l, in the order of
\* their links.
PathsOfSeries(l) == [f \in 1..dicomdir.shape.F |-> JoinPath(Append(l, f))]

TableGrows ==
  \/ Len(Patients') > Len(Patients)
  \/ Len(Studies') > Len(Studies)
  \/ Len(Series') > Len(Series)

\* The list of candidate files keeps what it holds in the step.
CandidatesKept ==
  /\ Len(candidates') >= Len(candidates)
  /\ SubSeq(candidates', 1, Len(candidates)) = candidates

\* C31: with a query set, no step of the decoder changes the Patient, Study
\* or Series table or calls AddSeriesFileNames: the decoder only appends
\* paths to the list of candidate files, and a table only gets longer in the
\* final pass of SortFiles.
C31_DecoderOnlyListsUnderQuery ==
  [][Query =>
       /\ pc = "decode" => (UNCHANGED <<storeVars, calls>> /\ CandidatesKept)
       /\ TableGrows => (pc = "sort" /\ pc' = "done")]_vars

\* A run with a query on the directory with a DICOMDIR has ended: the
\* decoder listed the files of the index and the grouping pass made the
\* entries of the tables.
C31_Witness ==
  /\ Query /\ pc = "done" /\ profile = "run"
  /\ DirectoryName = "indexed" /\ InputFileNames.null
  /\ Len(dicomdir.items) > 0 /\ dec.offset = 0
  /\ Len(candidates) = 2
  /\ Len(Series) > 0

(***************************************************************************)
(* C32: a file that fails the query and the group of its series.           *)
(***************************************************************************)
\* The file read last fails the query, and SortFiles goes on after the
\* checkpoint to the test of line 607.
FailingFileHandled ==
  /\ pc = "check" /\ pc' = "sort"
  /\ Query /\ ~FileToCompare.queryMatched

\* Group k is the group of the file's series and has matched the query on an
\* earlier file.
MatchedGroupOfFile(k) ==
  /\ JoinsGroup(sortedFiles[k], FileToCompare)
  /\ sortedFiles[k].QueryMatched

RangeOfStudy(j) == Studies[j].FirstSeries .. Studies[j].LastSeries

\* C33: whatever calls of AddSeriesFileNames were made, accepted or
\* rejected, every study has 0 <= FirstSeries <= LastSeries < number of
\* series, and every series index lies in the range of exactly one study.
C33_StudyRangesCoverSeriesOnce ==
  /\ \A j \in 1..Len(Studies) :
       /\ 0 <= Studies[j].FirstSeries
       /\ Studies[j].FirstSeries <= Studies[j].LastSeries
       /\ Studies[j].LastSeries < Len(Series)
  /\ \A k \in 0..(Len(Series) - 1) :
       Cardinality({ j \in 1..Len(Studies) : k \in RangeOfStudy(j) }) = 1

(***************************************************************************)
(* C34: the indices the final pass of SortFiles hands to the store.        *)
(***************************************************************************)
\* The final pass has run (SortFiles did not return at a checkpoint).
FinalPassDone == pc = "done" /\ profile \notin {"none", "dicomdir", "sparse", "links"} /\ ~abortSeen /\ numberOfStrings > 0

SurvivingGroups == { k \in 1..Len(sortedFiles) : sortedFiles[k].QueryMatched }

\* C34: in the final pass of SortFiles no AddSeriesFileNames call is
\* rejected: the patient index and the study index of a call are each the
\* count of the table or that count minus one and not negative, and every
\* group that matched the query is a SeriesEntry afterwards.
C34_FinalPassNeverRejected ==
  FinalPassDone =>
    /\ ~anyRejected
    /\ lastAdd.result # "none" =>
         /\ lastAdd.result = "ok" /\ ~lastAdd.oob
         /\ lastAdd.patient \in {lastAdd.m, lastAdd.m - 1} /\ lastAdd.patient >= 0
         /\ lastAdd.study \in {lastAdd.n, lastAdd.n - 1} /\ lastAdd.study >= 0
    /\ calls = Cardinality(SurvivingGroups)
    /\ Len(Series) = Cardinality(SurvivingGroups)

\* The final pass has handed over three groups: two of one patient, of
\* which the second continues the patient with a new study, and one of
\* another patient.
C34_Witness ==
  /\ FinalPassDone /\ profile = "keys"
  /\ Len(sortedFiles) = 3 /\ calls = 3
  /\ Len(Patients) = 2 /\ Len(Studies) = 3 /\ Len(Series) = 3

(***************************************************************************)
(* C35: the study lists of the patients after the grouping pass.           *)
(***************************************************************************)
\* The patients (1-based here) whose list of studies holds study index j.
PatientsOfStudy(j) ==
  { p \in 1..Len(Patients) :
      \E ii \in 1..Len(Patients[p].Studies) : Patients[p].Studies[ii] = j }

\* C35: after the final pass of SortFiles every study index is in the list
\* of studies of exactly one patient, and once in it; two files with
\* different patient IDs and the same study UID give two studies.
C35_EachStudyOfOnePatient ==
  FinalPassDone =>
    /\ \A j \in 0..(Len(Studies) - 1) : Cardinality(PatientsOfStudy(j)) = 1
    /\ \A p \in 1..Len(Patients) :
         \A a \in 1..Len(Patients[p].Studies) : \A b \in 1..Len(Patients[p].Studies) :
           Patients[p].Studies[a] = Patients[p].Studies[b] => a = b
    /\ (Len(input) = 2 /\ Len(sortedFiles) = 2 /\ Len(Series) = 2
        /\ input[1].PatientID # input[2].PatientID
        /\ input[1].PatientID # NoValue /\ input[2].PatientID # NoValue) =>
         (Len(Patients) = 2 /\ Len(Studies) = 2)

\* Two files of two patients with the same name, the same study UID and
\* the same series UID have been grouped: two patients, two studies.
C35_Witness ==
  /\ FinalPassDone /\ profile = "keys"
  /\ Len(input) = 2
  /\ input[1].PatientID # input[2].PatientID
  /\ input[1].PatientName = input[2].PatientName
  /\ input[1].StudyUID = 1 /\ input[2].StudyUID = 1
  /\ input[1].SeriesUID = input[2].SeriesUID
  /\ Len(Patients) = 2 /\ Len(Studies) = 2
  /\ Patients[1].Studies = <<0>> /\ Patients[2].Studies = <<1>>

(***************************************************************************)
(* C36: AddSeriesFileNames with an index of -1.                            *)
(***************************************************************************)
\* C36: no call of AddSeriesFileNames indexes the Studies or the Patients
\* table outside the table, and a call with study index -1 on a store
\* without studies, or with patient index -1 on a store without patients,
\* is rejected.
C36_IndexMinusOneRejected ==
  /\ ~lastAdd.oob
  /\ pc # "crashed"
  /\ (lastAdd.result # "none" /\ lastAdd.study = -1 /\ lastAdd.n = 0) =>
       lastAdd.result = "study"
  /\ (lastAdd.result # "none" /\ lastAdd.patient = -1 /\ lastAdd.m = 0) =>
       lastAdd.result \in {"study", "patient"}

(***************************************************************************)
(* C37: the setters and Update.                                            *)
(***************************************************************************)
\* The step gives a configuration value another value.
ConfigurationChanged ==
  <<DirectoryName, InputFileNames, FindLevel, Query>>'
    # <<DirectoryName, InputFileNames, FindLevel, Query>>

\* The next Update executes.
WillExecute == pc = "idle"

\* C37: a step that changes the directory name, the input file names, the
\* find level or the query leaves the reader so that the next Update
\* executes, so that the tables are rebuilt under the new value; a reader
\* that is up to date stays so unless such a value changes, and its Update
\* leaves the tables as they are.
C37_UpdateRerunsAfterEverySetter ==
  [][/\ ConfigurationChanged => WillExecute'
     /\ (pc = "done" /\ pc' # "done") => ConfigurationChanged
     /\ (pc = "done" /\ pc' = "done") => UNCHANGED storeVars]_vars

(***************************************************************************)
(* C38: the list of visited directories.                                   *)
(***************************************************************************)
StrictlySorted(visited) ==
  \A i \in 1..(Len(visited) - 1) : PathLess(visited[i], visited[i + 1])

\* The ProcessDirectory calls on the stack that are past the test of the
\* visited list.
PastVisitedTest ==
  { i \in 1..Len(walk) : walk[i].fn = "ProcessDirectory" /\ walk[i].phase # "enter" }

RealOfFrame(i) == Disk[walk[i].dirname].real

\* C38: the list of visited real paths is strictly ascending, and so
\* without a duplicate, in every state; the real path of a directory is in
\* the list from the test of the list on, before the directory is listed;
\* a call goes on to list a directory only when its real path was not in
\* the list, and puts just this path into it; no path leaves the list
\* before the next run starts, so no real directory is listed twice in a
\* run, and no two calls on the stack list the same real directory.
C38_VisitedSortedAndListedOnce ==
  /\ [](StrictlySorted(Visited))
  /\ [](\A i \in PastVisitedTest : RealOfFrame(i) \in Elements(Visited))
  /\ [](\A i, j \in PastVisitedTest : i # j => RealOfFrame(i) # RealOfFrame(j))
  /\ [][GoesOnToList =>
          /\ Disk[Top.dirname].real \notin Elements(Visited)
          /\ Elements(Visited') = Elements(Visited) \cup {Disk[Top.dirname].real}
          /\ Len(Visited') = Len(Visited) + 1]_vars
  /\ [][pc # "idle" => Elements(Visited) \subseteq Elements(Visited')]_vars

\* The walk of the ring of links has listed "ringa" and "ringb" and is
\* called on the link that leads back to "ringa".
C38_Witness ==
  /\ pc = "run" /\ walk # <<>>
  /\ Top.fn = "ProcessDirectory" /\ Top.phase = "enter"
  /\ Top.dirname = "ringb/toa"
  /\ Visited = <<"ringa", "ringb">>

(***************************************************************************)
(* C39: the scan depth.                                                    *)
(***************************************************************************)
\* The directories a run starts its walk in.
Roots ==
  IF InputFileNames.null
  THEN (IF DirectoryName = NullName THEN {} ELSE {DirectoryName})
  ELSE { n \in Elements(InputFileNames.values) : Disk[n].kind = "dir" }

\* The subdirectories named in the listings of the directories dirs.
SubdirectoriesOf(dirs) ==
  { e \in UNION { Elements(Disk[d].entries) : d \in dirs } : Disk[e].kind = "dir" }

\* The directories reached from the roots through at most k steps, each
\* from a directory to one that it lists.
RECURSIVE ReachedWithin(_)
ReachedWithin(k) ==
  IF k < 0 THEN {}
  ELSE IF k = 0 THEN Roots
  ELSE ReachedWithin(k - 1) \cup SubdirectoriesOf(ReachedWithin(k - 1))

\* The files named in the listings of the directories reached through
\* fewer than ScanDepth steps.
FilesWithinScanDepth ==
  UNION { Elements(Disk[d].entries) : d \in ReachedWithin(ScanDepth - 1) }

\* The number of steps from the root to the directory the innermost call
\* is listing.
StepsFromRoot ==
  Cardinality({ i \in 1..Len(walk) : walk[i].fn = "ProcessDirectory" }) - 1

\* The innermost ProcessDirectory call puts a file on the list, calls
\* itself for a subdirectory.
YieldsFile ==
  /\ pc = "run" /\ walk # <<>> /\ Top.fn = "ProcessDirectory"
  /\ candidates' # candidates

Descends ==
  /\ pc = "run" /\ walk # <<>> /\ Top.fn = "ProcessDirectory"
  /\ Len(walk') = Len(walk) + 1

\* C39: a ProcessDirectory call calls itself for a subdirectory only with
\* a remaining depth above 1, and with one less for the call; a file is
\* put on the list by a call fewer than ScanDepth steps from the root, so
\* that the files listed without a DICOMDIR are named in the listing of a
\* directory within that distance, or are input file names; with a scan
\* depth of 1 they are files of the root itself, and with a scan depth of 0
\* there is none.
C39_DescendsOnlyAboveDepthOne ==
  /\ [][Descends => Top.depth > 1 /\ walk'[Len(walk')].depth = Top.depth - 1]_vars
  /\ [][YieldsFile => StepsFromRoot < ScanDepth /\ Top.depth = ScanDepth - StepsFromRoot]_vars
  /\ [](dicomdir = NoDirectory =>
          \A c \in Elements(candidates) :
            \/ c \in FilesWithinScanDepth
            \/ ~InputFileNames.null /\ c \in Elements(InputFileNames.values))
  /\ []((dicomdir = NoDirectory /\ InputFileNames.null /\ ScanDepth = 1) =>
          \A c \in Elements(candidates) : c \in Elements(Disk[DirectoryName].entries))
  /\ []((dicomdir = NoDirectory /\ InputFileNames.null /\ ScanDepth = 0) =>
          candidates = <<>>)

\* The walk of "plain" with a scan depth of 2 has listed the files of
\* "plain" and of "plain/sub", and not the file of "plain/sub/deep".
C39_Witness ==
  /\ DirectoryName = "plain" /\ InputFileNames.null /\ ScanDepth = 2
  /\ pc = "done" /\ ~abortSeen
  /\ candidates = <<"plain/a.dcm", "plain/sub/c.dcm", "plain/b.dcm">>

(***************************************************************************)
(* C40: the order of the series numbers.                                   *)
(***************************************************************************)
SeriesNumberOf(i) == AsUnsignedInt(Series[i].Record[3])

\* C40: the series of one study that differ in their series numbers are
\* stored with the smaller number first, the numbers taken as unsigned
\* 32-bit numbers, whatever the difference of the two numbers.
C40_SmallerSeriesNumberFirst ==
  (FinalPassDone /\ profile = "wide") =>
    \A i, j \in 1..Len(Series) :
      (i < j /\ SeriesNumberOf(i) # SeriesNumberOf(j)) =>
        UnsignedLess(SeriesNumberOf(i), SeriesNumberOf(j))

====
